---- MODULE Spec2Model ----
(***************************************************************************)
(* ddup: health-checked dynamic DNS.                                       *)
(*                                                                         *)
(* Part 1 models the reconciliation engine of pkg/healthcheck              *)
(* (HealthChecker.checkAndUpdateDNS and the per-domain state of            *)
(* domainChecker) against the dns.Provider interface.                      *)
(* Part 2 models the provider adaptors of pkg/dns (Cloudflare, OVH, Unifi, *)
(* Azure) request by request against the records held by the provider.    *)
(* Part 3 models the status surface (getStatusObject).                     *)
(* Part 4 models the goroutines that share a domainChecker: Run, the       *)
(* probes of CheckAll and a status request, statement by statement.        *)
(* Part 5 models the probes of pkg/healthcheck/checker (CheckAll and       *)
(* checkEndpoint) and the http.Client they share.                          *)
(* Part 6 models the scheduler (HealthChecker.Run, the ticker and the      *)
(* context), Part 7 the start of the program (Config.Validate, the         *)
(* providers and NewHealthChecker).                                        *)
(* Part 8 models the status server of pkg/server (Server.Run and the       *)
(* handler of /api/status), Part 9 the names and the records the OVH and   *)
(* Unifi adaptors select, Part 10 one API request and its timeout context, *)
(* Part 11 checkAndUpdateDNS together with an adaptor.                     *)
(***************************************************************************)
EXTENDS Integers, Sequences, FiniteSets, TLC

(***************************************************************************)
(* Bounds and program constants                                            *)
(***************************************************************************)

\* the IPv4 addresses that occur in configurations and provider records
IPList == <<"1.1.1.1", "2.2.2.2", "3.3.3.3">>

IPs == {IPList[i] : i \in 1..Len(IPList)}

\* largest number of endpoints of a domain
MaxEndpoints == 2

\* math.MaxInt of the model: the Go int ranges over MinInt..MaxInt
MaxInt == 3

MinInt == 0 - (MaxInt + 1)

\* checker.DefaultAttempts
DefaultAttempts == 2

\* the default TTL of Config.Validate
DefaultTTL == 120

\* the domains of the configuration
Domains == {"example.com"}

\* ttl values a configuration file gives (0: not set)
TTLCfg == {0}

(***************************************************************************)
(* Go helpers                                                              *)
(***************************************************************************)

\* int arithmetic wraps around (two's complement)
WrapInt(x) == ((x - MinInt) % (MaxInt - MinInt + 1)) + MinInt

\* m[k] of a Go map: the zero value when the key is absent
MapGet(m, k) == IF k \in DOMAIN m THEN m[k] ELSE 0

MapPut(m, k, v) == [x \in (DOMAIN m) \cup {k} |-> IF x = k THEN v ELSE m[x]]

MapDelete(m, k) == [x \in (DOMAIN m) \ {k} |-> m[x]]

EmptyMap == [x \in {} |-> 0]

\* slices.Contains
Contains(s, e) == \E i \in 1..Len(s) : s[i] = e

\* the inner loop of utils.ElementsMatch: the first unvisited j >= from with
\* listB[j] = element, or 0
RECURSIVE FindUnvisited(_, _, _, _)
FindUnvisited(listB, visited, element, j) ==
    IF j > Len(listB) THEN 0
    ELSE IF (~visited[j]) /\ element = listB[j] THEN j
    ELSE FindUnvisited(listB, visited, element, j + 1)

\* the outer loop of utils.ElementsMatch
RECURSIVE MatchFrom(_, _, _, _)
MatchFrom(listA, listB, visited, i) ==
    IF i > Len(listA) THEN TRUE
    ELSE LET j == FindUnvisited(listB, visited, listA[i], 1)
         IN  IF j = 0 THEN FALSE
             ELSE MatchFrom(listA, listB, [visited EXCEPT ![j] = TRUE], i + 1)

\* ElementsMatch without the search for each element: only the lengths count
ElementsMatchLengthOnly(listA, listB) == Len(listA) = Len(listB)

\* utils.ElementsMatch: same elements regardless of the order
ElementsMatch(listA, listB) ==
    IF Len(listA) # Len(listB) THEN FALSE
    ELSE MatchFrom(listA, listB, [j \in 1..Len(listB) |-> FALSE], 1)

(***************************************************************************)
(* Configuration                                                           *)
(***************************************************************************)

\* checker.New: attempts <= 0 becomes DefaultAttempts
New(attempts) == IF attempts <= 0 THEN DefaultAttempts ELSE attempts

\* Config.Validate, for the TTL of one domain: the TTL of c.Domains[di]
\* when Validate has returned.  `d := c.Domains[di]` copies the ConfigDomain
\* (Domains is a []ConfigDomain) and the default goes in the copy d, which
\* is dropped at the end of the iteration
Validate(ttl) ==
    LET d == [TTL |-> IF ttl <= 0 THEN DefaultTTL ELSE ttl]
    IN  ttl

\* endpoint lists of a domain (the IP of each endpoint, in declared order);
\* the first endpoint has the first IP and every further endpoint has an IP
\* already used or the next unused one, which covers every list up to renaming
EndpointIdx == {s \in UNION {[1..n -> 1..Len(IPList)] : n \in 1..MaxEndpoints} :
                  \A i \in 1..Len(s) :
                      \/ i = 1 /\ s[i] = 1
                      \/ i > 1 /\ \E j \in 1..(i - 1) : s[i] = s[j]
                      \/ i > 1 /\ s[i] = 1 + Cardinality({s[j] : j \in 1..(i - 1)})}

EndpointConfigs == {[i \in 1..Len(s) |-> IPList[s[i]]] : s \in EndpointIdx}

(***************************************************************************)
(* Part 1: the reconciliation engine                                       *)
(***************************************************************************)

VARIABLES
    cfg,          \* config.Get().Domains: domain -> [endpoints, attempts, ttl]
    dcs,          \* HealthChecker.domainCheckers: domain -> domainChecker state
    pc,           \* position of HealthChecker.Run
    todo,         \* domains the running pass has still to visit
    cur,          \* locals of the reconciliation blocked in UpdateRecords
    hist,         \* per domain, what the last finished reconciliation did
    probeLog      \* whether hist counts the failed probes in a row

rvars == <<cfg, dcs, pc, todo, cur, hist, probeLog>>

\* Part 2: one provider adaptor, the records held by the provider and the
\* UpdateRecords call in progress
VARIABLES
    adaptor,          \* which Provider implementation is called
    records,          \* record-oriented provider: record id -> [content, ttl]
    rset,             \* record-set provider (Azure): [exists, ttl, ips]
    apc,              \* position of UpdateRecords
    call,             \* the call: [ttl, ips (the caller's slice), given (ips as
                      \* passed), again (it repeats a call that returned nil)]
    pre,              \* what the provider held when the call started
    existingRecords,  \* the records read so far
    pending,          \* OVH: record ids whose details are still to be read
    plan,             \* the requests the loops are still to issue
    log,              \* the requests issued by the call, in order
    lastResp,         \* the response to the last request
    ret               \* what UpdateRecords returned

avars == <<adaptor, records, rset, apc, call, pre, existingRecords, pending, plan,
           log, lastResp, ret>>

\* Part 4: the goroutines that share one domainChecker, step by step
VARIABLES
    mutex,        \* holder of domainChecker.lock: "free", "run" or "status"
    checker,      \* the fields of the domainChecker; failedIPs is a reference
    maps,         \* the map objects that are referenced: reference -> map
    run,          \* the goroutine of HealthChecker.Run: position and locals
    probes,       \* the goroutines of CheckAll: one per endpoint
    reader,       \* a goroutine serving getStatusObject: position and locals
    ticker,       \* a tick is waiting in ticker.C
    open,         \* reconciliations that have read the state and not ended
    now,          \* the clock read by time.Now()
    ctx           \* the context passed to Run: "live" or "cancelled"

cvars == <<mutex, checker, maps, run, probes, reader, ticker, open, now, ctx>>

\* Part 5: the probes of one checker, step by step
VARIABLES
    probed,       \* checker.endpoints: [url, https, host] per endpoint
    httpClient,   \* the http.Client of the checker (c.client): [Transport]
    checks,       \* the goroutines of CheckAll running checkEndpoint
    checkAll      \* CheckAll: position, results, completion order, first call

pvars == <<probed, httpClient, checks, checkAll>>

\* the start of the program: Validate, the providers, NewHealthChecker
VARIABLES
    boot          \* the position of main and what it has built

\* the status server of pkg/server
VARIABLES
    srv           \* the Server object, the calls of Run and the last request

\* one API request of an adaptor, from the timeout context to the return
VARIABLES
    request       \* the position in the request, its context and its outcome

vars == <<rvars, avars, cvars, pvars, boot, srv, request>>

NoCur == [domain |-> "none", results |-> <<>>, currentHealthyIPs |-> <<>>,
          newHealthyIPs |-> <<>>, failedIPs |-> EmptyMap, ttl |-> 0]

NoHist == [outcome |-> "none", prev |-> <<>>, prevFailed |-> EmptyMap,
           results |-> <<>>, new |-> <<>>, calls |-> <<>>, consec |-> <<>>]

\* the number of probes of each endpoint that failed in a row, up to and
\* including the results r (counted up to MaxInt; kept when probeLog is set)
Consecutive(d, r) ==
    IF ~probeLog THEN <<>>
    ELSE [i \in 1..Len(r) |->
            IF r[i] THEN 0
            ELSE LET before == IF hist[d].consec = <<>> THEN 0 ELSE hist[d].consec[i]
                 IN  IF before < MaxInt THEN before + 1 ELSE MaxInt]

\* failedIPs[ip]++ without the overflow guard
IncFailureWraps(count) == WrapInt(count + 1)

\* failedIPs[ip]++ followed by the overflow guard
IncFailure(count) ==
    LET inc == WrapInt(count + 1)
    IN  IF inc < 0 THEN MaxInt ELSE inc

\* the retry condition without the test of the published list
InGraceNeverPublished(count, maxAttempts, currentHealthyIPs, ip) ==
    count < maxAttempts

\* the retry condition: fewer failures than the maximum and healthy before
InGrace(count, maxAttempts, currentHealthyIPs, ip) ==
    count < maxAttempts /\ Contains(currentHealthyIPs, ip)

\* the loop over the results of CheckAll: the new healthy list and the
\* updated clone of failedIPs
RECURSIVE CollectHealthy(_, _, _, _, _, _)
CollectHealthy(endpoints, results, i, currentHealthyIPs, maxAttempts, acc) ==
    IF i > Len(results) THEN acc
    ELSE LET ip == endpoints[i]
         IN  IF results[i]
             THEN CollectHealthy(endpoints, results, i + 1, currentHealthyIPs, maxAttempts,
                     [new |-> Append(acc.new, ip), failed |-> MapDelete(acc.failed, ip)])
             ELSE LET count == IncFailure(MapGet(acc.failed, ip))
                  IN  CollectHealthy(endpoints, results, i + 1, currentHealthyIPs, maxAttempts,
                         [new |-> IF InGrace(count, maxAttempts, currentHealthyIPs, ip)
                                  THEN Append(acc.new, ip) ELSE acc.new,
                          failed |-> MapPut(acc.failed, ip, count)])

\* Decision without the len(newHealthyIPs) > 0 test: an empty list is sent
DecisionSendsEmpty(currentHealthyIPs, newHealthyIPs) ==
    IF ~ElementsMatch(currentHealthyIPs, newHealthyIPs) THEN "update" ELSE "unchanged"

\* what checkAndUpdateDNS does with the new list: "unchanged" (skip the
\* update), "nohealthy" (warn, no update) or "update" (call the provider)
Decision(currentHealthyIPs, newHealthyIPs) ==
    IF ~ElementsMatch(currentHealthyIPs, newHealthyIPs)
    THEN IF Len(newHealthyIPs) > 0 THEN "update" ELSE "nohealthy"
    ELSE "unchanged"

\* setState without the assignment of healthyIPs
setStateKeepsIPs(dc, healthyIPs, failedIPs) ==
    [dc EXCEPT !.failedIPs = failedIPs, !.lastError = ""]

\* setState without the reset of lastError
setStateKeepsError(dc, healthyIPs, failedIPs) ==
    [dc EXCEPT !.healthyIPs = healthyIPs, !.failedIPs = failedIPs]

\* domainChecker.setState
setState(dc, healthyIPs, failedIPs) ==
    [dc EXCEPT !.healthyIPs = healthyIPs, !.failedIPs = failedIPs, !.lastError = ""]

\* domainChecker.setError
setError(dc, err) == [dc EXCEPT !.lastError = err]

\* state of the domainCheckers built by NewHealthChecker
NewHealthChecker(c) ==
    [d \in DOMAIN c |-> [healthyIPs |-> <<>>, failedIPs |-> EmptyMap, lastError |-> ""]]

\* the results CheckAll can return for a domain: one per endpoint
CheckAll(d) == [1..Len(cfg[d].endpoints) -> BOOLEAN]

\* the state read and the loop over the results, for the results r
Collected(d, r) ==
    CollectHealthy(cfg[d].endpoints, r, 1, dcs[d].healthyIPs, cfg[d].attempts,
                   [new |-> <<>>, failed |-> dcs[d].failedIPs])

\* no call in progress
NoCall == [ttl |-> 0, ips |-> <<>>, given |-> <<>>, again |-> FALSE]

\* no response received
NoResp == [status |-> 0, body |-> "none"]

\* the record-set does not exist
NoRecordSet == [exists |-> FALSE, ttl |-> 0, ips |-> <<>>]

\* the locals of Run outside a pass
NoRun == [pc |-> "select", currentHealthyIPs |-> <<>>, failedIPs |-> 0,
          results |-> <<>>, i |-> 0, newHealthyIPs |-> <<>>]

\* the locals of a status request that has not called getState
NoStatus == [pc |-> "idle", healthy |-> <<>>, unhealthy |-> 0, lastUpdated |-> 0,
             lastError |-> "", seen |-> EmptyMap, tagIPs |-> 0, tagFailed |-> 0,
             endpoints |-> <<>>]

\* a domainChecker as NewHealthChecker builds it, failedIPs being the
\* reference ref (tagIPs and tagFailed: the time of the call of setState
\* that assigned healthyIPs and failedIPs)
NewDomainChecker(ref) ==
    [healthyIPs |-> <<>>, failedIPs |-> ref, lastUpdated |-> 0, lastError |-> "",
     tagIPs |-> 0, tagFailed |-> 0]

\* the http.Client built by checker.New: no Transport
NewClient == [Transport |-> "nil"]

\* CheckAll has not been called
NoCheckAll == [pc |-> "idle", results |-> <<>>, order |-> <<>>, first |-> TRUE]

\* the probes are not modelled step by step
\* the callers of Server.Run
Callers == {1, 2}

\* a call of Run that has not been made
NoRunCall == [pc |-> "idle", ret |-> "none", ctx |-> "live"]

\* no request made
NoRequest == [pc |-> "idle", method |-> "none", reqCtx |-> "none", status |-> 0,
              body |-> "none", err |-> "nil"]

\* the Server as NewServer returns it, no request served
NoServer == [running |-> FALSE, wg |-> 0, appListener |-> "nil", serving |-> FALSE,
             exited |-> FALSE,
             calls |-> [c \in Callers |-> NoRunCall],
             req |-> "none", resp |-> [code |-> 0, body |-> "none"]]

\* main has started the services: its steps are not modelled
NoBoot == [pc |-> "running", providers |-> {}, uses |-> EmptyMap,
           dnsProviders |-> EmptyMap, err |-> "nil"]

NoProbes ==
    /\ probed = <<>>
    /\ httpClient = NewClient
    /\ checks = <<>>
    /\ checkAll = NoCheckAll

\* the goroutines are not modelled step by step
NoGoroutines ==
    /\ mutex = "free"
    /\ checker = NewDomainChecker(1)
    /\ maps = [ref \in {1} |-> EmptyMap]
    /\ run = NoRun
    /\ probes = <<>>
    /\ reader = NoStatus
    /\ ticker = FALSE
    /\ open = 0
    /\ now = 0
    /\ ctx = "live"

\* the engine runs against the mock provider, which issues no request
MockProvider ==
    /\ adaptor = "mock"
    /\ records = EmptyMap
    /\ rset = NoRecordSet
    /\ apc = "idle"
    /\ call = NoCall
    /\ pre = [records |-> EmptyMap, rset |-> NoRecordSet]
    /\ existingRecords = <<>>
    /\ pending = <<>>
    /\ plan = <<>>
    /\ log = <<>>
    /\ lastResp = NoResp
    /\ ret = "none"

InitEngine ==
    /\ MockProvider
    /\ NoGoroutines
    /\ NoProbes
    /\ boot = NoBoot
    /\ srv = NoServer
    /\ request = NoRequest
    /\ cfg \in [Domains -> [endpoints : EndpointConfigs,
                            attempts : {New(a) : a \in 0..MaxInt},
                            ttl : {Validate(t) : t \in TTLCfg}]]
    /\ dcs = NewHealthChecker(cfg)
    /\ pc = "waiting"
    /\ todo = {}
    /\ cur = NoCur
    /\ hist = [d \in Domains |-> NoHist]

Init == InitEngine /\ probeLog = FALSE

\* the same engine with the record of the probes that failed in a row
InitProbeLog == InitEngine /\ probeLog = TRUE

\* Run: the immediate pass and every ticker event start a pass
Tick ==
    /\ pc = "waiting"
    /\ pc' = "pass"
    /\ todo' = DOMAIN dcs
    /\ UNCHANGED <<cfg, dcs, cur, hist, probeLog, avars, cvars, pvars, boot, srv, request>>

\* the pass has visited every domain
EndPass ==
    /\ pc = "pass"
    /\ todo = {}
    /\ pc' = "waiting"
    /\ UNCHANGED <<cfg, dcs, todo, cur, hist, probeLog, avars, cvars, pvars, boot, srv, request>>

\* one iteration of the loop of checkAndUpdateDNS that does not reach the
\* provider: the healthy IPs are unchanged, or there are none
ReconcileNoCall(d, r) ==
    /\ pc = "pass"
    /\ d \in todo
    /\ LET acc == Collected(d, r)
           dec == Decision(dcs[d].healthyIPs, acc.new)
       IN  /\ dec \in {"unchanged", "nohealthy"}
           /\ dcs' = [dcs EXCEPT ![d] = setState(dcs[d], acc.new, acc.failed)]
           /\ hist' = [hist EXCEPT ![d] =
                         [outcome |-> dec, prev |-> dcs[d].healthyIPs,
                          prevFailed |-> dcs[d].failedIPs, results |-> r,
                          new |-> acc.new, calls |-> <<>>,
                          consec |-> Consecutive(d, r)]]
    /\ todo' = todo \ {d}
    /\ UNCHANGED <<cfg, pc, cur, probeLog, avars, cvars, pvars, boot, srv, request>>

\* one iteration that finds a changed, non-empty list: UpdateRecords is called
ReconcileCall(d, r) ==
    /\ pc = "pass"
    /\ d \in todo
    /\ LET acc == Collected(d, r)
       IN  /\ Decision(dcs[d].healthyIPs, acc.new) = "update"
           /\ cur' = [domain |-> d, results |-> r,
                      currentHealthyIPs |-> dcs[d].healthyIPs,
                      newHealthyIPs |-> acc.new, failedIPs |-> acc.failed,
                      ttl |-> cfg[d].ttl]
    /\ pc' = "calling"
    /\ UNCHANGED <<cfg, dcs, todo, hist, probeLog, avars, cvars, pvars, boot, srv, request>>

\* UpdateRecords returns nil: the new state is stored
UpdateRecordsOK ==
    /\ pc = "calling"
    /\ LET d == cur.domain
       IN  /\ dcs' = [dcs EXCEPT ![d] = setState(dcs[d], cur.newHealthyIPs, cur.failedIPs)]
           /\ hist' = [hist EXCEPT ![d] =
                         [outcome |-> "updated", prev |-> cur.currentHealthyIPs,
                          prevFailed |-> dcs[d].failedIPs, results |-> cur.results,
                          new |-> cur.newHealthyIPs, calls |-> <<cur.newHealthyIPs>>,
                          consec |-> Consecutive(d, cur.results)]]
           /\ todo' = todo \ {d}
    /\ pc' = "pass"
    /\ cur' = NoCur
    /\ UNCHANGED <<cfg, probeLog, avars, cvars, pvars, boot, srv, request>>

\* UpdateRecordsError without the `continue`: the error is recorded and the
\* iteration falls through to setState
UpdateRecordsErrorFallsThrough ==
    /\ pc = "calling"
    /\ LET d == cur.domain
       IN  /\ dcs' = [dcs EXCEPT ![d] =
                        setState(setError(dcs[d], "Error updating DNS records"),
                                 cur.newHealthyIPs, cur.failedIPs)]
           /\ hist' = [hist EXCEPT ![d] =
                         [outcome |-> "error", prev |-> cur.currentHealthyIPs,
                          prevFailed |-> dcs[d].failedIPs, results |-> cur.results,
                          new |-> cur.newHealthyIPs, calls |-> <<cur.newHealthyIPs>>,
                          consec |-> Consecutive(d, cur.results)]]
           /\ todo' = todo \ {d}
    /\ pc' = "pass"
    /\ cur' = NoCur
    /\ UNCHANGED <<cfg, probeLog, avars, cvars, pvars, boot, srv, request>>

\* UpdateRecordsError with `return` in place of `continue`: the error ends
\* the pass
UpdateRecordsErrorReturns ==
    /\ pc = "calling"
    /\ LET d == cur.domain
       IN  /\ dcs' = [dcs EXCEPT ![d] = setError(dcs[d], "Error updating DNS records")]
           /\ hist' = [hist EXCEPT ![d] =
                         [outcome |-> "error", prev |-> cur.currentHealthyIPs,
                          prevFailed |-> dcs[d].failedIPs, results |-> cur.results,
                          new |-> cur.newHealthyIPs, calls |-> <<cur.newHealthyIPs>>,
                          consec |-> Consecutive(d, cur.results)]]
           /\ todo' = {}
    /\ pc' = "pass"
    /\ cur' = NoCur
    /\ UNCHANGED <<cfg, probeLog, avars, cvars, pvars, boot, srv, request>>

\* UpdateRecordsError that stores the failure counts of this pass before it
\* continues
UpdateRecordsErrorStoresCounts ==
    /\ pc = "calling"
    /\ LET d == cur.domain
       IN  /\ dcs' = [dcs EXCEPT ![d] =
                        [setError(dcs[d], "Error updating DNS records")
                            EXCEPT !.failedIPs = cur.failedIPs]]
           /\ hist' = [hist EXCEPT ![d] =
                         [outcome |-> "error", prev |-> cur.currentHealthyIPs,
                          prevFailed |-> dcs[d].failedIPs, results |-> cur.results,
                          new |-> cur.newHealthyIPs, calls |-> <<cur.newHealthyIPs>>,
                          consec |-> Consecutive(d, cur.results)]]
           /\ todo' = todo \ {d}
    /\ pc' = "pass"
    /\ cur' = NoCur
    /\ UNCHANGED <<cfg, probeLog, avars, cvars, pvars, boot, srv, request>>

\* UpdateRecords returns an error: setError and continue with the next domain
UpdateRecordsError ==
    /\ pc = "calling"
    /\ LET d == cur.domain
       IN  /\ dcs' = [dcs EXCEPT ![d] = setError(dcs[d], "Error updating DNS records")]
           /\ hist' = [hist EXCEPT ![d] =
                         [outcome |-> "error", prev |-> cur.currentHealthyIPs,
                          prevFailed |-> dcs[d].failedIPs, results |-> cur.results,
                          new |-> cur.newHealthyIPs, calls |-> <<cur.newHealthyIPs>>,
                          consec |-> Consecutive(d, cur.results)]]
           /\ todo' = todo \ {d}
    /\ pc' = "pass"
    /\ cur' = NoCur
    /\ UNCHANGED <<cfg, probeLog, avars, cvars, pvars, boot, srv, request>>

Next ==
    \/ Tick
    \/ EndPass
    \/ \E d \in DOMAIN cfg : \E r \in CheckAll(d) : ReconcileNoCall(d, r)
    \/ \E d \in DOMAIN cfg : \E r \in CheckAll(d) : ReconcileCall(d, r)
    \/ UpdateRecordsOK
    \/ UpdateRecordsError

Spec == Init /\ [][Next]_vars

SpecProbeLog == InitProbeLog /\ [][Next]_vars

\* a configuration with two domains, each with its own domainChecker
AllDomains == {"example.com", "test.com"}

\* the endpoints of the two domains: two endpoints and one endpoint
DomainEndpoints == [d \in AllDomains |-> IF d = "example.com"
                                         THEN <<"1.1.1.1", "2.2.2.2">>
                                         ELSE <<"3.3.3.3">>]

InitDomains ==
    /\ MockProvider
    /\ NoGoroutines
    /\ NoProbes
    /\ boot = NoBoot
    /\ srv = NoServer
    /\ request = NoRequest
    /\ cfg \in {[d \in AllDomains |-> [endpoints |-> DomainEndpoints[d],
                                        attempts |-> a[d],
                                        ttl |-> Validate(0)]] :
                   a \in [AllDomains -> {New(x) : x \in 0..1}]}
    /\ dcs = NewHealthChecker(cfg)
    /\ pc = "waiting"
    /\ todo = {}
    /\ cur = NoCur
    /\ hist = [d \in AllDomains |-> NoHist]
    /\ probeLog = FALSE

\* the engine over the two domains; the range over the map of
\* domainCheckers visits the domains in any order
SpecDomains == InitDomains /\ [][Next]_vars

(***************************************************************************)
(* Claims about the reconciliation engine                                  *)
(***************************************************************************)

\* the elements of a list
SetOf(list) == {list[i] : i \in 1..Len(list)}

\* how often e occurs in a list
Count(list, e) == Cardinality({i \in 1..Len(list) : list[i] = e})

\* the two lists hold the same elements the same number of times
SameBag(listA, listB) == \A e \in SetOf(listA) \cup SetOf(listB) : Count(listA, e) = Count(listB, e)

\* endpoint i is the only endpoint of domain d with its IP
OnlyEndpoint(d, i) == Count(cfg[d].endpoints, cfg[d].endpoints[i]) = 1

\* a reconciliation of d has finished
Reconciled(d) == hist[d].outcome # "none"

\* C1 (grace debouncing): after every reconciliation whose provider call, if
\* any, did not fail, the IP of an endpoint is published iff its probe
\* succeeded, or its probe failed, the IP was published before and the
\* endpoint has fewer than `attempts` failed probes in a row.
C1_GraceDebouncing ==
    \A d \in Domains :
        (probeLog /\ hist[d].outcome \in {"unchanged", "nohealthy", "updated"}) =>
            \A i \in 1..Len(cfg[d].endpoints) :
                OnlyEndpoint(d, i) =>
                    LET ip == cfg[d].endpoints[i]
                    IN  Contains(dcs[d].healthyIPs, ip) <=>
                            \/ hist[d].results[i]
                            \/ /\ ~hist[d].results[i]
                               /\ Contains(hist[d].prev, ip)
                               /\ hist[d].consec[i] < cfg[d].attempts

\* C2 (provider-failure preservation): after a reconciliation in which
\* UpdateRecords returned an error the published IPs are those of before.
C2_ProviderFailurePreserves ==
    \A d \in Domains :
        hist[d].outcome = "error" => dcs[d].healthyIPs = hist[d].prev

\* C2 witness: a failed update of a domain that had published IPs and whose
\* new list was a different one
C2_Witness ==
    \E d \in Domains :
        /\ hist[d].outcome = "error"
        /\ hist[d].prev # <<>>
        /\ SetOf(hist[d].new) # SetOf(hist[d].prev)

\* the failure counts after a reconciliation in which every probe failed
AllFailedCounts(d) ==
    [ip \in SetOf(cfg[d].endpoints) |->
        LET n == MapGet(hist[d].prevFailed, ip) + Count(cfg[d].endpoints, ip)
        IN  IF n < MaxInt THEN n ELSE MaxInt]

\* C3 (all down - preserve): UpdateRecords is never called with an empty
\* list; when the new list is empty and IPs were published, the provider is
\* not called at all (so its records stay as they were), and the empty list
\* and the failure counts are stored.
C3_AllDownPreserve ==
    /\ pc = "calling" => cur.newHealthyIPs # <<>>
    /\ \A d \in Domains :
          /\ \A c \in 1..Len(hist[d].calls) : hist[d].calls[c] # <<>>
          /\ (Reconciled(d) /\ hist[d].new = <<>> /\ hist[d].prev # <<>>) =>
                /\ hist[d].calls = <<>>
                /\ dcs[d].healthyIPs = <<>>
                /\ dcs[d].failedIPs = AllFailedCounts(d)

\* C3 witness: every endpoint of a domain with published IPs dropped out
C3_Witness ==
    \E d \in Domains :
        /\ Reconciled(d)
        /\ hist[d].new = <<>>
        /\ hist[d].prev # <<>>
        /\ Len(cfg[d].endpoints) > 1

\* C4: after a reconciliation in which UpdateRecords succeeded, the
\* published IPs are, as a set, the list passed to UpdateRecords.
C4_PublishedIsSent ==
    \A d \in Domains :
        hist[d].outcome = "updated" =>
            /\ Len(hist[d].calls) = 1
            /\ SetOf(dcs[d].healthyIPs) = SetOf(hist[d].calls[1])

\* C4 witness: a successful update that changed a non-empty published list
C4_Witness ==
    \E d \in Domains :
        /\ hist[d].outcome = "updated"
        /\ hist[d].prev # <<>>
        /\ SetOf(hist[d].prev) # SetOf(hist[d].calls[1])

\* every failing endpoint of the last reconciliation was published and has
\* not used up its attempts, and nothing else changed
OnlyGraceFailures(d) ==
    /\ SameBag(hist[d].prev, cfg[d].endpoints)
    /\ \A i \in 1..Len(cfg[d].endpoints) :
          \/ hist[d].results[i]
          \/ /\ OnlyEndpoint(d, i)
             /\ MapGet(hist[d].prevFailed, cfg[d].endpoints[i]) + 1 < cfg[d].attempts

\* C5: a reconciliation calls UpdateRecords at most once, and calls it iff
\* the new list is non-empty and differs from the published one regardless
\* of the order; a failure within the grace causes no call.
C5_CallIffChanged ==
    \A d \in Domains :
        /\ Len(hist[d].calls) <= 1
        /\ Reconciled(d) =>
              /\ (Len(hist[d].calls) = 1) <=>
                    (hist[d].new # <<>> /\ ~SameBag(hist[d].new, hist[d].prev))
              /\ OnlyGraceFailures(d) => hist[d].calls = <<>>

\* C5 witness: an endpoint failed within its grace and no call was made
C5_Witness ==
    \E d \in Domains :
        /\ Reconciled(d)
        /\ OnlyGraceFailures(d)
        /\ \E i \in 1..Len(cfg[d].endpoints) : ~hist[d].results[i]
        /\ hist[d].calls = <<>>
        /\ Len(hist[d].prev) > 1

(***************************************************************************)
(* Part 2: the provider adaptors                                           *)
(***************************************************************************)

\* largest number of A records the provider holds for the domain
MaxRecords == 2

\* largest number of IPs passed to UpdateRecords
MaxIPs == 2

\* the implementations of Provider
Adaptors == {"cloudflare", "ovh", "unifi", "azure"}

\* the record-oriented ones
RecordOriented == {"cloudflare", "ovh", "unifi"}

\* the ttl of the calls: that of a domain configured with ttl: 120
CallTTLs == {Validate(DefaultTTL)}

\* TTLs of the records found at the provider: the one ddup writes and another
RecordTTLs == CallTTLs \cup {60}

\* lists passed as ips
IPLists == UNION {[1..n -> IPs] : n \in 0..MaxIPs}

\* what the HTTP client returns for a request: status 0 stands for an error
\* of httpClient.Do (or of the token request of Azure); the body is the
\* expected JSON document ("ok"), a JSON document with success:false
\* ("apifail", Cloudflare) or one that cannot be decoded, an empty body
\* included ("garbage"); 404 is told from 500 by the Azure adaptor only
Responses(a) ==
    {r \in [status : {0, 200, 204, 404, 500}, body : {"ok", "apifail", "garbage"}] :
        /\ r.status \in {0, 204} => r.body = "garbage"
        /\ r.status = 404 => a = "azure"
        /\ r.body = "apifail" => a = "cloudflare"}

\* the responses to a request whose body the adaptor does not decode
WriteResponses(a) ==
    {r \in Responses(a) : r.body = "garbage" => r.status \in {0, 204}}

\* res.StatusCode < 200 || res.StatusCode >= 300
BadStatus(status) == status < 200 \/ status >= 300

\* Cloudflare getExistingRecords: the body must decode and report success;
\* the status is not looked at
ReadFailsCloudflare(resp) == resp.status = 0 \/ resp.body # "ok"

\* OVH performJSONRequest with a destination: a 2xx status, the JSON
\* content type and a body that decodes (to the record asked for)
ReadFailsOVH(resp) == BadStatus(resp.status) \/ resp.body # "ok"

\* Unifi getExistingRecords: status 200 and a body that decodes
ReadFailsUnifi(resp) == resp.status # 200 \/ resp.body # "ok"

\* Azure getExistingIPs: a token, a 2xx status and a body that decodes
ReadFailsAzure(resp) == BadStatus(resp.status) \/ resp.body # "ok"

\* the error check of the read requests of each adaptor
ReadFails(a, resp) ==
    CASE a = "cloudflare" -> ReadFailsCloudflare(resp)
      [] a = "ovh" -> ReadFailsOVH(resp)
      [] a = "unifi" -> ReadFailsUnifi(resp)
      [] a = "azure" -> ReadFailsAzure(resp)

\* Azure deleteRecord: 200, or 404 when the record does not exist
DeleteFailsAzure(resp) == resp.status # 200 /\ resp.status # 404

\* the error check of the mutating requests of each adaptor: the status
WriteFails(a, method, resp) ==
    IF a = "azure" /\ method = "DELETE"
    THEN DeleteFailsAzure(resp)
    ELSE BadStatus(resp.status)

\* the provider carries out a mutating request it answers with a 2xx status,
\* unless the body reports a failure
Applied(resp) == (~BadStatus(resp.status)) /\ resp.body # "apifail"

\* the position of an IP in the order of slices.Sort
IPIndex(ip) == CHOOSE i \in 1..Len(IPList) : IPList[i] = ip

RECURSIVE SortedInsert(_, _)
SortedInsert(sorted, e) ==
    IF sorted = <<>> THEN <<e>>
    ELSE IF IPIndex(e) <= IPIndex(Head(sorted)) THEN <<e>> \o sorted
    ELSE <<Head(sorted)>> \o SortedInsert(Tail(sorted), e)

\* slices.Sort
RECURSIVE Sort(_)
Sort(list) == IF list = <<>> THEN <<>> ELSE SortedInsert(Sort(Tail(list)), Head(list))

\* the records of the domain as the provider lists them: by id
RECURSIVE ListFrom(_, _)
ListFrom(recs, id) ==
    IF id > MaxRecords THEN <<>>
    ELSE (IF id \in DOMAIN recs
          THEN <<[id |-> id, content |-> recs[id].content]>> ELSE <<>>)
         \o ListFrom(recs, id + 1)

\* the map existingIPs: content -> record id, a later record replacing an
\* earlier one with the same content
RECURSIVE existingIPs(_)
existingIPs(recs) ==
    IF recs = <<>> THEN EmptyMap
    ELSE LET last == recs[Len(recs)]
         IN  MapPut(existingIPs(SubSeq(recs, 1, Len(recs) - 1)), last.content, last.id)

\* the map desiredIPs: the set of the IPs passed
desiredIPs(ips) == {ips[i] : i \in 1..Len(ips)}

\* the DELETE requests of the first loop, in each order a map can be ranged
DeletePlans(existing, ips) ==
    LET gone == {ip \in DOMAIN existing : ip \notin desiredIPs(ips)}
        orders == {o \in [1..Cardinality(gone) -> gone] :
                      \A i, j \in DOMAIN o : i # j => o[i] # o[j]}
    IN  {[i \in DOMAIN o |->
            [method |-> "DELETE", id |-> existing[o[i]], ips |-> <<o[i]>>]] : o \in orders}

\* the second loop without the test of existingIPs
RECURSIVE CreatePlanAll(_, _)
CreatePlanAll(existing, ips) ==
    IF ips = <<>> THEN <<>>
    ELSE <<[method |-> "POST", id |-> 0, ips |-> <<Head(ips)>>]>>
         \o CreatePlanAll(existing, Tail(ips))

\* the POST requests of the second loop, in the order of ips
RECURSIVE CreatePlan(_, _)
CreatePlan(existing, ips) ==
    IF ips = <<>> THEN <<>>
    ELSE (IF Head(ips) \in DOMAIN existing THEN <<>>
          ELSE <<[method |-> "POST", id |-> 0, ips |-> <<Head(ips)>>]>>)
         \o CreatePlan(existing, Tail(ips))

\* the two loops with the creations first
PlansCreateFirst(recs, ips) ==
    {CreatePlan(existingIPs(recs), ips) \o d : d \in DeletePlans(existingIPs(recs), ips)}

\* the requests of the two loops of a record-oriented UpdateRecords
Plans(recs, ips) ==
    {d \o CreatePlan(existingIPs(recs), ips) : d \in DeletePlans(existingIPs(recs), ips)}

\* the decision of the Azure UpdateRecords after the read: the requests to
\* issue and the caller's slice, which slices.Sort reorders in place
AzurePlan(currentIPs, ips) ==
    IF Len(ips) = 0
    THEN [ips |-> ips,
          plan |-> IF Len(currentIPs) = 0 THEN <<>>
                   ELSE <<[method |-> "DELETE", id |-> 0, ips |-> <<>>]>>]
    ELSE IF Len(ips) # Len(currentIPs)
    THEN [ips |-> ips, plan |-> <<[method |-> "PUT", id |-> 0, ips |-> ips]>>]
    ELSE [ips |-> Sort(ips),
          plan |-> IF Sort(ips) # Sort(currentIPs)
                   THEN <<[method |-> "PUT", id |-> 0, ips |-> Sort(ips)]>>
                   ELSE <<>>]

\* the IPs getExistingIPs extracts from the record-set
currentIPsOf(rs) == IF rs.exists THEN rs.ips ELSE <<>>

\* the loops without the return on an error: the call goes on with the rest
\* of the requests whatever the request returned
ContinueOnError(err, rest) == [apc |-> "write", ret |-> "none", plan |-> rest]

\* `if err != nil { return ... }` after a request of the loops
ReturnOnError(err, rest) ==
    IF err THEN [apc |-> "done", ret |-> "error", plan |-> plan]
    ELSE [apc |-> "write", ret |-> "none", plan |-> rest]

\* the entry of the log for a request
Issued(method, id, ips, err) == [method |-> method, id |-> id, ips |-> ips, err |-> err]

\* the provider's record ids not in use
FreeIds == (1..MaxRecords) \ DOMAIN records

\* the states a record-oriented provider can be in before the first call:
\* any records under any ids, created with one TTL
RecordStates ==
    UNION {[ids -> [content : IPs, ttl : {t}]] :
              ids \in SUBSET (1..MaxRecords), t \in RecordTTLs}

\* the states a record-set can be in: absent, or a TTL and distinct IPs
RecordSetStates ==
    {NoRecordSet} \cup
    {[exists |-> TRUE, ttl |-> t, ips |-> l] :
        t \in RecordTTLs,
        l \in {x \in UNION {[1..n -> IPs] : n \in 0..MaxRecords} :
                  \A i, j \in DOMAIN x : i # j => x[i] # x[j]}}

\* an adaptor called directly, as the tests of pkg/dns do, against any
\* state of the provider
InitAdaptor ==
    /\ cfg = [d \in Domains |-> [endpoints |-> <<IPList[1]>>,
                                 attempts |-> DefaultAttempts, ttl |-> DefaultTTL]]
    /\ dcs = NewHealthChecker(cfg)
    /\ pc = "waiting"
    /\ todo = {}
    /\ cur = NoCur
    /\ hist = [d \in Domains |-> NoHist]
    /\ probeLog = FALSE
    /\ adaptor \in Adaptors
    /\ IF adaptor \in RecordOriented
       THEN records \in RecordStates /\ rset = NoRecordSet
       ELSE records = EmptyMap /\ rset \in RecordSetStates
    /\ apc = "idle"
    /\ call = NoCall
    /\ pre = [records |-> records, rset |-> rset]
    /\ existingRecords = <<>>
    /\ pending = <<>>
    /\ plan = <<>>
    /\ log = <<>>
    /\ lastResp = NoResp
    /\ ret = "none"
    /\ NoGoroutines
    /\ NoProbes
    /\ boot = NoBoot
    /\ srv = NoServer
    /\ request = NoRequest

\* UpdateRecords(ctx, domain, ttl, ips) is called: a first call with any
\* list, or the call that has returned made once more with the same list
UpdateRecords(ttl, ips) ==
    /\ \/ apc = "idle"
       \/ apc = "done" /\ ips = call.given /\ ttl = call.ttl
    /\ apc' = "read"
    /\ call' = [ttl |-> ttl, ips |-> ips, given |-> ips,
                again |-> (apc = "done" /\ ret = "nil")]
    /\ pre' = [records |-> records, rset |-> rset]
    /\ existingRecords' = <<>>
    /\ pending' = <<>>
    /\ plan' = <<>>
    /\ log' = <<>>
    /\ lastResp' = NoResp
    /\ ret' = "none"
    /\ UNCHANGED <<adaptor, records, rset, rvars, cvars, pvars, boot, srv, request>>

\* getExistingRecords of Cloudflare and Unifi (one GET listing the records)
\* and the GET of the record ids of OVH
getExistingRecords(resp) ==
    /\ adaptor \in RecordOriented
    /\ apc = "read"
    /\ lastResp' = resp
    /\ LET err == ReadFails(adaptor, resp)
           listed == ListFrom(records, 1)
       IN  /\ log' = Append(log, Issued("GET", 0, <<>>, err))
           /\ IF err
              THEN /\ ret' = "error"
                   /\ apc' = "done"
                   /\ UNCHANGED <<existingRecords, pending, plan>>
              ELSE /\ ret' = "none"
                   /\ IF adaptor = "ovh" /\ listed # <<>>
                      THEN /\ pending' = [i \in 1..Len(listed) |-> listed[i].id]
                           /\ apc' = "detail"
                           /\ UNCHANGED <<existingRecords, plan>>
                      ELSE /\ existingRecords' = listed
                           /\ plan' \in Plans(listed, call.ips)
                           /\ apc' = "write"
                           /\ UNCHANGED pending
    /\ UNCHANGED <<adaptor, records, rset, call, pre, rvars, cvars, pvars, boot, srv, request>>

\* getRecord of OVH: the GET of the details of one record
getRecord(resp) ==
    /\ adaptor = "ovh"
    /\ apc = "detail"
    /\ lastResp' = resp
    /\ LET err == ReadFails(adaptor, resp)
           id == Head(pending)
           read == Append(existingRecords, [id |-> id, content |-> records[id].content])
       IN  /\ log' = Append(log, Issued("GET", id, <<>>, err))
           /\ IF err
              THEN /\ ret' = "error"
                   /\ apc' = "done"
                   /\ UNCHANGED <<existingRecords, pending, plan>>
              ELSE /\ ret' = "none"
                   /\ existingRecords' = read
                   /\ pending' = Tail(pending)
                   /\ IF Tail(pending) = <<>>
                      THEN plan' \in Plans(read, call.ips) /\ apc' = "write"
                      ELSE UNCHANGED <<plan, apc>>
    /\ UNCHANGED <<adaptor, records, rset, call, pre, rvars, cvars, pvars, boot, srv, request>>

\* getExistingIPs of Azure (one GET of the record-sets) and the decision
\* UpdateRecords takes on the IPs it returns
getExistingIPs(resp) ==
    /\ adaptor = "azure"
    /\ apc = "read"
    /\ lastResp' = resp
    /\ LET err == ReadFails(adaptor, resp)
           decided == AzurePlan(currentIPsOf(rset), call.ips)
       IN  /\ log' = Append(log, Issued("GET", 0, <<>>, err))
           /\ IF err
              THEN /\ ret' = "error"
                   /\ apc' = "done"
                   /\ UNCHANGED <<call, plan>>
              ELSE /\ ret' = "none"
                   /\ call' = [call EXCEPT !.ips = decided.ips]
                   /\ plan' = decided.plan
                   /\ apc' = "write"
    /\ UNCHANGED <<adaptor, records, rset, pre, existingRecords, pending, rvars, cvars, pvars, boot, srv, request>>

\* deleteRecord: the DELETE of one record (of the record-set in Azure)
deleteRecord(resp) ==
    /\ apc = "write"
    /\ plan # <<>>
    /\ Head(plan).method = "DELETE"
    /\ lastResp' = resp
    /\ LET req == Head(plan)
           err == WriteFails(adaptor, "DELETE", resp)
           after == ReturnOnError(err, Tail(plan))
       IN  /\ log' = Append(log, Issued("DELETE", req.id, req.ips, err))
           /\ IF Applied(resp)
              THEN IF adaptor = "azure"
                   THEN rset' = NoRecordSet /\ UNCHANGED records
                   ELSE records' = [id \in (DOMAIN records) \ {req.id} |-> records[id]]
                        /\ UNCHANGED rset
              ELSE UNCHANGED <<records, rset>>
           /\ apc' = after.apc
           /\ ret' = after.ret
           /\ plan' = after.plan
    /\ UNCHANGED <<adaptor, call, pre, existingRecords, pending, rvars, cvars, pvars, boot, srv, request>>

\* createRecord: the POST of one record; the provider accepts it while it
\* has a free record id
createRecord(resp) ==
    /\ apc = "write"
    /\ plan # <<>>
    /\ Head(plan).method = "POST"
    /\ Applied(resp) => FreeIds # {}
    /\ lastResp' = resp
    /\ LET req == Head(plan)
           err == WriteFails(adaptor, "POST", resp)
           after == ReturnOnError(err, Tail(plan))
           id == CHOOSE x \in FreeIds : \A y \in FreeIds : x <= y
       IN  /\ log' = Append(log, Issued("POST", 0, req.ips, err))
           /\ IF Applied(resp)
              THEN records' = [x \in (DOMAIN records) \cup {id} |->
                                 IF x = id THEN [content |-> req.ips[1], ttl |-> call.ttl]
                                 ELSE records[x]]
              ELSE UNCHANGED records
           /\ apc' = after.apc
           /\ ret' = after.ret
           /\ plan' = after.plan
    /\ UNCHANGED <<adaptor, rset, call, pre, existingRecords, pending, rvars, cvars, pvars, boot, srv, request>>

\* createOrUpdateRecord of Azure: the PUT of the record-set
createOrUpdateRecord(resp) ==
    /\ apc = "write"
    /\ plan # <<>>
    /\ Head(plan).method = "PUT"
    /\ lastResp' = resp
    /\ LET req == Head(plan)
           err == WriteFails(adaptor, "PUT", resp)
           after == ReturnOnError(err, Tail(plan))
       IN  /\ log' = Append(log, Issued("PUT", 0, req.ips, err))
           /\ IF Applied(resp)
              THEN rset' = [exists |-> TRUE, ttl |-> call.ttl, ips |-> req.ips]
              ELSE UNCHANGED rset
           /\ apc' = after.apc
           /\ ret' = after.ret
           /\ plan' = after.plan
    /\ UNCHANGED <<adaptor, records, call, pre, existingRecords, pending, rvars, cvars, pvars, boot, srv, request>>

\* the loops are over: UpdateRecords returns nil
ReturnNil ==
    /\ apc = "write"
    /\ plan = <<>>
    /\ apc' = "done"
    /\ ret' = "nil"
    /\ UNCHANGED <<adaptor, records, rset, call, pre, existingRecords, pending, plan,
                   log, lastResp, rvars, cvars, pvars, boot, srv, request>>

NextAdaptor ==
    \/ \E t \in CallTTLs : \E ips \in IPLists : UpdateRecords(t, ips)
    \/ \E resp \in Responses(adaptor) : getExistingRecords(resp)
    \/ \E resp \in Responses(adaptor) : getRecord(resp)
    \/ \E resp \in Responses(adaptor) : getExistingIPs(resp)
    \/ \E resp \in WriteResponses(adaptor) : deleteRecord(resp)
    \/ \E resp \in WriteResponses(adaptor) : createRecord(resp)
    \/ \E resp \in WriteResponses(adaptor) : createOrUpdateRecord(resp)
    \/ ReturnNil

SpecAdaptor == InitAdaptor /\ [][NextAdaptor]_vars

(***************************************************************************)
(* Claims about the provider adaptors                                      *)
(***************************************************************************)

\* the A values a provider state holds for the domain, as a list
ValuesOf(p) ==
    IF adaptor \in RecordOriented
    THEN LET l == ListFrom(p.records, 1) IN [i \in 1..Len(l) |-> l[i].content]
    ELSE currentIPsOf(p.rset)

\* the TTLs of the A records a provider state holds for the domain
TTLsOf(p) ==
    IF adaptor \in RecordOriented
    THEN {p.records[id].ttl : id \in DOMAIN p.records}
    ELSE IF p.rset.exists /\ p.rset.ips # <<>> THEN {p.rset.ttl} ELSE {}

\* what the provider holds now
Provider == [records |-> records, rset |-> rset]

\* the mutating requests issued so far by the call
Writes == SelectSeq(log, LAMBDA e : e.method # "GET")

\* UpdateRecords has returned nil
ReturnedNil == apc = "done" /\ ret = "nil"

\* C6 (provider contract): when UpdateRecords returns nil, the A values the
\* provider holds are exactly the IPs passed and every record carries the
\* ttl passed.
C6_ProviderContract ==
    ReturnedNil =>
        /\ SetOf(ValuesOf(Provider)) = SetOf(call.given)
        /\ TTLsOf(Provider) \subseteq {call.ttl}

\* the provider held the values passed, in some order, when the call started
HeldDesired ==
    \/ SameBag(ValuesOf(pre), call.given)
    \/ adaptor \in RecordOriented /\ SetOf(ValuesOf(pre)) = SetOf(call.given)

\* C7 (idempotence): a call that starts with the provider holding the values
\* passed issues read requests only and, unless a read fails, returns nil;
\* so does the same call made again afterwards.
C7_Idempotence ==
    (apc # "idle" /\ HeldDesired) =>
        /\ \A i \in 1..Len(log) : log[i].method = "GET"
        /\ Provider = pre
        /\ apc = "done" => (ret = "nil" <=> \A i \in 1..Len(log) : ~log[i].err)

\* C7 witness: a call repeated after it returned nil, with two IPs the
\* provider lists in another order, has returned nil again
C7_Witness ==
    /\ ReturnedNil
    /\ call.again
    /\ HeldDesired
    /\ Cardinality(SetOf(call.given)) > 1
    /\ SameBag(ValuesOf(pre), call.given)
    /\ ValuesOf(pre) # call.given
    /\ log # <<>>

\* the number of values in exactly one of the two lists
SymDiff(listA, listB) ==
    Cardinality((SetOf(listA) \ SetOf(listB)) \cup (SetOf(listB) \ SetOf(listA)))

\* C8 (minimum diff): a call that returns nil has issued as many mutating
\* requests as there are IPs in exactly one of the provider's values and the
\* IPs passed (record-oriented adaptors), at most one (Azure).
C8_MinimumDiff ==
    ReturnedNil =>
        IF adaptor \in RecordOriented
        THEN Len(Writes) = SymDiff(ValuesOf(pre), call.given)
        ELSE Len(Writes) <= 1

\* C9 (order of the requests): in a record-oriented adaptor no read follows
\* a mutating request and no DELETE follows a POST; the first request is the
\* read.
C9_DeletesBeforeCreates ==
    adaptor \in RecordOriented =>
        /\ log # <<>> => log[1].method = "GET"
        /\ \A i, j \in 1..Len(log) :
              i < j => /\ ~(log[i].method # "GET" /\ log[j].method = "GET")
                       /\ ~(log[i].method = "POST" /\ log[j].method = "DELETE")
        /\ \A i \in 1..Len(log) : log[i].method \in {"GET", "DELETE", "POST"}

\* C9 witness: a call has deleted two records and then created one
C9_Witness ==
    /\ adaptor \in RecordOriented
    /\ ReturnedNil
    /\ Cardinality({i \in 1..Len(log) : log[i].method = "DELETE"}) > 1
    /\ \E i \in 1..Len(log) : log[i].method = "POST"

\* C10 (abort on the first failure): a request whose response the adaptor
\* finds to be an error is the last request of the call, and the call has
\* returned an error; a call returns an error only for its last request.
C10_AbortOnFailure ==
    /\ \A i \in 1..Len(log) :
          log[i].err => (i = Len(log) /\ apc = "done" /\ ret = "error")
    /\ ret = "error" => (apc = "done" /\ log # <<>> /\ log[Len(log)].err)

\* C10 witness: a DELETE failed after the read and a first DELETE, with
\* requests left that were not issued
C10_Witness ==
    /\ apc = "done"
    /\ ret = "error"
    /\ Len(log) > 2
    /\ log[Len(log)].method = "DELETE"
    /\ log[Len(log)].err
    /\ Len(plan) > 1

\* C11 (empty list): a call with no IPs that returns nil has issued DELETE
\* requests only: one per record the provider held (record-oriented), one
\* for the record-set when it held values (Azure); when the provider held
\* no value the call has issued no mutating request.
C11_EmptyDeletes ==
    (ReturnedNil /\ call.given = <<>>) =>
        /\ \A i \in 1..Len(Writes) : Writes[i].method = "DELETE"
        /\ IF adaptor \in RecordOriented
           THEN Len(Writes) = Cardinality(DOMAIN pre.records)
           ELSE Len(Writes) = (IF ValuesOf(pre) # <<>> THEN 1 ELSE 0)

\* C12 (Azure PUT): a call of the Azure adaptor that wrote the record-set
\* and returned nil has written the ttl passed and the IPs in the order they
\* were passed, and the caller's list is in the order it was passed.
C12_PutInGivenOrder ==
    (adaptor = "azure" /\ apc # "idle") =>
        /\ call.ips = call.given
        /\ (ReturnedNil /\ Writes # <<>> /\ Writes[1].method = "PUT") =>
              /\ Writes[1].ips = call.given
              /\ rset.exists /\ rset.ttl = call.ttl /\ rset.ips = call.given

(***************************************************************************)
(* Part 3: the status surface                                              *)
(***************************************************************************)

\* a DomainStatusEndpoint
Endpoint(healthy, ip, failureCount) ==
    [healthy |-> healthy, ip |-> ip, failureCount |-> failureCount]

\* the first loop of getStatusObject with FailureCount left at zero
HealthyEndpointsNoCount(healthy, unhealthy) ==
    [i \in 1..Len(healthy) |-> Endpoint(TRUE, healthy[i], 0)]

\* the first loop of getStatusObject: one entry per IP of the healthy list
HealthyEndpoints(healthy, unhealthy) ==
    [i \in 1..Len(healthy) |-> Endpoint(TRUE, healthy[i], MapGet(unhealthy, healthy[i]))]

\* the second loop of getStatusObject: one entry per IP of the unhealthy map
\* with at least maxAttempts failures, in each order a map can be ranged
UnhealthyEndpoints(unhealthy, maxAttempts) ==
    LET out == {ip \in DOMAIN unhealthy : unhealthy[ip] >= maxAttempts}
        orders == {o \in [1..Cardinality(out) -> out] :
                      \A i, j \in DOMAIN o : i # j => o[i] # o[j]}
    IN  {[i \in DOMAIN o |-> Endpoint(FALSE, o[i], unhealthy[o[i]])] : o \in orders}

\* getStatusObject on the values getState returned: the DomainStatus objects
\* it can build (lastUpdated and the provider name are left out)
getStatusObject(healthy, unhealthy, lastError, maxAttempts) ==
    {[error |-> lastError, endpoints |-> HealthyEndpoints(healthy, unhealthy) \o u] :
        u \in UnhealthyEndpoints(unhealthy, maxAttempts)}

\* GetDomainStatus: the status objects a reader can get for domain d now
GetDomainStatus(d) ==
    getStatusObject(dcs[d].healthyIPs, dcs[d].failedIPs, dcs[d].lastError,
                    cfg[d].attempts)

(***************************************************************************)
(* Claims about the status surface and the state after a reconciliation    *)
(***************************************************************************)

\* the entries of a status object
EntriesOf(st) == {st.endpoints[i] : i \in 1..Len(st.endpoints)}

\* C15 (status derivation): in every status object of a domain the IPs of
\* the entries with healthy:true are the published IPs, and each of these
\* entries carries failureCount[ip], 0 when the IP has no count.
C15_StatusDerivation ==
    \A d \in Domains : \A st \in GetDomainStatus(d) :
        /\ {e.ip : e \in {x \in EntriesOf(st) : x.healthy}} = SetOf(dcs[d].healthyIPs)
        /\ \A e \in EntriesOf(st) :
              e.healthy => e.failureCount = MapGet(dcs[d].failedIPs, e.ip)

\* C15 witness: a published IP is within its grace and its entry shows the
\* running count
C15_Witness ==
    \E d \in Domains : \E st \in GetDomainStatus(d) : \E e \in EntriesOf(st) :
        /\ e.healthy
        /\ e.failureCount > 0
        /\ e.failureCount < cfg[d].attempts
        /\ Count(cfg[d].endpoints, e.ip) = 1

\* C16: in every status object of a domain every IP that has a failure
\* count and is not published has an entry with healthy:false and its count.
C16_UnhealthyListed ==
    \A d \in Domains : \A st \in GetDomainStatus(d) :
        \A ip \in (DOMAIN dcs[d].failedIPs) \ SetOf(dcs[d].healthyIPs) :
            Endpoint(FALSE, ip, dcs[d].failedIPs[ip]) \in EntriesOf(st)

\* C17 (I4): after every reconciliation of a domain, whatever its outcome,
\* the failure count of the IP of an endpoint is zero or absent iff the last
\* probe of the endpoint succeeded.
C17_CountZeroIffHealthy ==
    \A d \in Domains :
        (Reconciled(d) /\ pc # "calling") =>
            \A i \in 1..Len(cfg[d].endpoints) :
                OnlyEndpoint(d, i) =>
                    (MapGet(dcs[d].failedIPs, cfg[d].endpoints[i]) = 0
                        <=> hist[d].results[i])

\* C18: after each reconciliation of a domain lastError is non-empty iff
\* UpdateRecords was called in it and returned an error; a reconciliation
\* that commits leaves lastError empty; the error of every status object is
\* lastError.
C18_LastError ==
    \A d \in Domains :
        /\ \A st \in GetDomainStatus(d) : st.error = dcs[d].lastError
        /\ Reconciled(d) =>
              /\ dcs[d].lastError # "" <=>
                    (hist[d].outcome = "error" /\ Len(hist[d].calls) = 1)
              /\ hist[d].outcome \in {"unchanged", "nohealthy", "updated"} =>
                    dcs[d].lastError = ""
        /\ ~Reconciled(d) => dcs[d].lastError = ""

\* C18 witness: a reconciliation ended in a provider error and the status
\* object shows it
C18_Witness ==
    \E d \in Domains : \E st \in GetDomainStatus(d) :
        /\ hist[d].outcome = "error"
        /\ st.error # ""
        /\ hist[d].prev # <<>>

\* C20 (retry on the next tick): the reconciliation of a domain that
\* follows one in which UpdateRecords failed calls UpdateRecords again.
C20_RetryNextTick ==
    [][\A d \in Domains :
          (hist[d].outcome = "error" /\ hist'[d] # hist[d]) =>
              hist'[d].outcome \in {"error", "updated"}]_vars

(***************************************************************************)
(* Claims about passes over several domains                                *)
(***************************************************************************)

\* the step finishes the reconciliation of e, and what it stores and sends
\* is computed from the state, the configuration and the probes of e alone
OwnReconciliation(e) ==
    LET acc == CollectHealthy(cfg[e].endpoints, hist'[e].results, 1, dcs[e].healthyIPs,
                              cfg[e].attempts, [new |-> <<>>, failed |-> dcs[e].failedIPs])
        dec == Decision(dcs[e].healthyIPs, acc.new)
    IN  /\ hist'[e].results \in CheckAll(e)
        /\ hist'[e].new = acc.new
        /\ hist'[e].calls = (IF dec = "update" THEN <<acc.new>> ELSE <<>>)
        /\ IF hist'[e].outcome = "error"
           THEN dec = "update" /\ dcs'[e] = setError(dcs[e], "Error updating DNS records")
           ELSE dcs'[e] = setState(dcs[e], acc.new, acc.failed)

\* C19: domain independence. A pass ends only when every domain was visited;
\* a step that finishes the reconciliation of one domain, with a failed
\* UpdateRecords or not, removes that domain alone from the domains still to
\* visit and leaves the state of every other domain as it was; and what a
\* reconciliation stores (healthyIPs, failedIPs, lastError) and sends to the
\* provider depends on the state and the probes of its own domain only, so it
\* is the same whether or not another domain failed in the pass.
C19_DomainIndependence ==
    [][/\ (pc = "pass" /\ pc' = "waiting") => todo = {}
       /\ \A e \in AllDomains :
             IF e \in todo /\ e \notin todo'
             THEN todo' = todo \ {e} /\ OwnReconciliation(e)
             ELSE dcs'[e] = dcs[e] /\ hist'[e] = hist[e]]_vars

\* UpdateRecords failed for example.com and, later in the same pass, test.com
\* was probed and its UpdateRecords is being called
C19_Witness ==
    /\ pc = "calling"
    /\ cur.domain = "test.com"
    /\ "example.com" \notin todo
    /\ hist["example.com"].outcome = "error"
    /\ dcs["example.com"].lastError # ""

(***************************************************************************)
(* Part 4: the goroutines that share one domainChecker                     *)
(*                                                                         *)
(* Run executes checkAndUpdateDNS statement by statement for one domain,   *)
(* CheckAll starts one goroutine per endpoint, and a status request runs   *)
(* getStatusObject at any time.  A Go map is a reference: maps holds the   *)
(* map objects, and failedIPs fields and locals hold references to them.   *)
(***************************************************************************)

\* Run stops receiving ticks (ctx.Done()) when the clock has this value
MaxClock == 3

\* the domain whose domainChecker the goroutines share
Shared == CHOOSE d \in Domains : TRUE

\* a mutex that excludes nobody
CanLockAlways(m) == TRUE

\* sync.Mutex.Lock returns when nobody holds the mutex
CanLock(m) == m = "free"

\* the references held by the domainChecker c, by Run r and by the status
\* request s
Refs(c, r, s) == {c.failedIPs, r.failedIPs, s.unhealthy} \ {0}

\* garbage collection: a map object nobody refers to is dropped
Collect(m, c, r, s) == [ref \in (DOMAIN m) \cap Refs(c, r, s) |-> m[ref]]

\* the reference of a new map object
NewRef(m) ==
    CHOOSE ref \in 1..(Cardinality(DOMAIN m) + 1) :
        ref \notin DOMAIN m /\ \A x \in 1..(ref - 1) : x \in DOMAIN m

\* failedIPs used without being cloned
CloneAlias(m, ref) == [maps |-> m, ref |-> ref]

\* maps.Clone: a new map object with the entries of the map ref refers to
Clone(m, ref) ==
    LET n == NewRef(m)
    IN  [maps |-> [x \in (DOMAIN m) \cup {n} |-> IF x = n THEN m[ref] ELSE m[x]],
         ref |-> n]

\* CheckAll returning without waiting for its goroutines
WaitReturns(p) == TRUE

\* wg.Wait returns when every goroutine of CheckAll has called wg.Done
Wait(p) == \A i \in DOMAIN p : p[i] = "done"

InitGoroutines ==
    /\ MockProvider
    /\ cfg \in [Domains -> [endpoints : {DomainEndpoints[Shared]},
                            attempts : {New(a) : a \in 0..1},
                            ttl : {Validate(t) : t \in TTLCfg}]]
    /\ dcs = NewHealthChecker(cfg)
    /\ pc = "waiting"
    /\ todo = {}
    /\ cur = NoCur
    /\ hist = [d \in Domains |-> NoHist]
    /\ probeLog = FALSE
    /\ mutex = "free"
    /\ checker = NewDomainChecker(1)
    /\ maps = [ref \in {1} |-> EmptyMap]
    /\ run = [NoRun EXCEPT !.pc = "getState"]
    /\ probes = <<>>
    /\ reader = NoStatus
    /\ ticker = FALSE
    /\ open = 0
    /\ now = 0
    /\ ctx = "live"
    /\ NoProbes
    /\ boot = NoBoot
    /\ srv = NoServer
    /\ request = NoRequest

\* the ticker sends a tick on ticker.C, which holds one tick
TickerFires ==
    /\ ~ticker
    /\ ticker' = TRUE
    /\ UNCHANGED <<rvars, avars, pvars, boot, srv, request, ctx, mutex, checker, maps, run, probes, reader, open, now>>

\* Run receives the tick and calls checkAndUpdateDNS
RunReceive ==
    /\ run.pc = "select"
    /\ ticker
    /\ now < MaxClock
    /\ ticker' = FALSE
    /\ run' = [NoRun EXCEPT !.pc = "getState"]
    /\ UNCHANGED <<rvars, avars, pvars, boot, srv, request, ctx, mutex, checker, maps, probes, reader, open, now>>

\* dc.lock.Lock() at the head of getState, setState and setError
RunLock ==
    /\ run.pc \in {"getState", "setState", "setError"}
    /\ CanLock(mutex)
    /\ mutex' = "run"
    /\ run' = [run EXCEPT !.pc = CASE run.pc = "getState" -> "read"
                                  [] run.pc = "setState" -> "writeIPs"
                                  [] run.pc = "setError" -> "writeError"]
    /\ UNCHANGED <<rvars, avars, pvars, boot, srv, request, ctx, checker, maps, probes, reader, ticker, open, now>>

\* getState: the fields are read and the mutex is released
RunGetState ==
    /\ run.pc = "read"
    /\ run' = [run EXCEPT !.pc = "clone",
                          !.currentHealthyIPs = checker.healthyIPs,
                          !.failedIPs = checker.failedIPs]
    /\ mutex' = "free"
    /\ open' = open + 1
    /\ UNCHANGED <<rvars, avars, pvars, boot, srv, request, ctx, checker, maps, probes, reader, ticker, now>>

\* failedIPs = maps.Clone(failedIPs)
RunClone ==
    /\ run.pc = "clone"
    /\ LET c == Clone(maps, run.failedIPs)
       IN  /\ run' = [run EXCEPT !.pc = "checkAll", !.failedIPs = c.ref]
           /\ maps' = Collect(c.maps, checker, run', reader)
    /\ UNCHANGED <<rvars, avars, pvars, boot, srv, request, ctx, mutex, checker, probes, reader, ticker, open, now>>

\* CheckAll: the results are allocated and one goroutine per endpoint starts
RunCheckAll ==
    /\ run.pc = "checkAll"
    /\ probes' = [i \in 1..Len(cfg[Shared].endpoints) |-> "running"]
    /\ run' = [run EXCEPT !.pc = "wait",
                          !.results = [i \in 1..Len(cfg[Shared].endpoints) |-> FALSE]]
    /\ UNCHANGED <<rvars, avars, pvars, boot, srv, request, ctx, mutex, checker, maps, reader, ticker, open, now>>

\* the goroutine of endpoint i stores its result and calls wg.Done
Probe(i, healthy) ==
    /\ i \in DOMAIN probes
    /\ probes[i] = "running"
    /\ probes' = [probes EXCEPT ![i] = "done"]
    /\ run' = IF i \in DOMAIN run.results
              THEN [run EXCEPT !.results = [run.results EXCEPT ![i] = healthy]]
              ELSE run
    /\ UNCHANGED <<rvars, avars, pvars, boot, srv, request, ctx, mutex, checker, maps, reader, ticker, open, now>>

\* wg.Wait returns and CheckAll returns the results
RunWait ==
    /\ run.pc = "wait"
    /\ Wait(probes)
    /\ run' = [run EXCEPT !.pc = "loop", !.i = 1, !.newHealthyIPs = <<>>]
    /\ UNCHANGED <<rvars, avars, pvars, boot, srv, request, ctx, mutex, checker, maps, probes, reader, ticker, open, now>>

\* one iteration of the loop over the results: it appends to newHealthyIPs
\* and writes the map failedIPs refers to
RunLoop ==
    /\ run.pc = "loop"
    /\ run.i <= Len(run.results)
    /\ LET acc == CollectHealthy(cfg[Shared].endpoints, SubSeq(run.results, 1, run.i),
                                 run.i, run.currentHealthyIPs, cfg[Shared].attempts,
                                 [new |-> run.newHealthyIPs, failed |-> maps[run.failedIPs]])
       IN  /\ run' = [run EXCEPT !.i = run.i + 1, !.newHealthyIPs = acc.new]
           /\ maps' = [maps EXCEPT ![run.failedIPs] = acc.failed]
    /\ UNCHANGED <<rvars, avars, pvars, boot, srv, request, ctx, mutex, checker, probes, reader, ticker, open, now>>

\* after the loop: UpdateRecords is called, or the iteration goes on to setState
RunDecide ==
    /\ run.pc = "loop"
    /\ run.i > Len(run.results)
    /\ run' = [run EXCEPT !.pc = IF Decision(run.currentHealthyIPs, run.newHealthyIPs) = "update"
                                 THEN "calling" ELSE "setState"]
    /\ UNCHANGED <<rvars, avars, pvars, boot, srv, request, ctx, mutex, checker, maps, probes, reader, ticker, open, now>>

\* UpdateRecords returns: with an error the iteration goes on to setError
RunUpdateRecords(err) ==
    /\ run.pc = "calling"
    /\ run' = [run EXCEPT !.pc = IF err THEN "setError" ELSE "setState"]
    /\ UNCHANGED <<rvars, avars, pvars, boot, srv, request, ctx, mutex, checker, maps, probes, reader, ticker, open, now>>

\* setState: dc.healthyIPs = healthyIPs
RunSetStateIPs ==
    /\ run.pc = "writeIPs"
    /\ checker' = [checker EXCEPT !.healthyIPs = run.newHealthyIPs, !.tagIPs = now + 1]
    /\ run' = [run EXCEPT !.pc = "writeFailed"]
    /\ UNCHANGED <<rvars, avars, pvars, boot, srv, request, ctx, mutex, maps, probes, reader, ticker, open, now>>

\* setState: dc.failedIPs = failedIPs
RunSetStateFailed ==
    /\ run.pc = "writeFailed"
    /\ checker' = [checker EXCEPT !.failedIPs = run.failedIPs, !.tagFailed = now + 1]
    /\ run' = [run EXCEPT !.pc = "writeTime"]
    /\ maps' = Collect(maps, checker', run', reader)
    /\ UNCHANGED <<rvars, avars, pvars, boot, srv, request, ctx, mutex, probes, reader, ticker, open, now>>

\* setState: lastUpdated and lastError are assigned and the mutex is
\* released; the iteration and, with it, the pass end
RunSetStateDone ==
    /\ run.pc = "writeTime"
    /\ checker' = [checker EXCEPT !.lastUpdated = now + 1, !.lastError = ""]
    /\ now' = now + 1
    /\ mutex' = "free"
    /\ open' = open - 1
    /\ run' = NoRun
    /\ maps' = Collect(maps, checker', run', reader)
    /\ UNCHANGED <<rvars, avars, pvars, boot, srv, request, ctx, probes, reader, ticker>>

\* setError: lastUpdated and lastError are assigned and the mutex is
\* released; `continue` ends the iteration
RunSetError ==
    /\ run.pc = "writeError"
    /\ checker' = [checker EXCEPT !.lastUpdated = now + 1,
                                  !.lastError = "Error updating DNS records"]
    /\ now' = now + 1
    /\ mutex' = "free"
    /\ open' = open - 1
    /\ run' = NoRun
    /\ maps' = Collect(maps, checker', run', reader)
    /\ UNCHANGED <<rvars, avars, pvars, boot, srv, request, ctx, probes, reader, ticker>>

\* a status request arrives: getStatusObject calls getState
StatusCall ==
    /\ reader.pc = "idle"
    /\ reader' = [reader EXCEPT !.pc = "getState"]
    /\ UNCHANGED <<rvars, avars, pvars, boot, srv, request, ctx, mutex, checker, maps, run, probes, ticker, open, now>>

\* dc.lock.Lock() of the getState of the status request
StatusLock ==
    /\ reader.pc = "getState"
    /\ CanLock(mutex)
    /\ mutex' = "status"
    /\ reader' = [reader EXCEPT !.pc = "read"]
    /\ UNCHANGED <<rvars, avars, pvars, boot, srv, request, ctx, checker, maps, run, probes, ticker, open, now>>

\* getState: the fields are read and the mutex is released (seen: the
\* entries of the map at that moment)
StatusGetState ==
    /\ reader.pc = "read"
    /\ reader' = [reader EXCEPT !.pc = "healthy",
                                !.healthy = checker.healthyIPs,
                                !.unhealthy = checker.failedIPs,
                                !.lastUpdated = checker.lastUpdated,
                                !.lastError = checker.lastError,
                                !.seen = maps[checker.failedIPs],
                                !.tagIPs = checker.tagIPs,
                                !.tagFailed = checker.tagFailed]
    /\ mutex' = "free"
    /\ maps' = Collect(maps, checker, run, reader')
    /\ UNCHANGED <<rvars, avars, pvars, boot, srv, request, ctx, checker, run, probes, ticker, open, now>>

\* the loop of getStatusObject over healthy, reading unhealthy[ip]
StatusHealthy ==
    /\ reader.pc = "healthy"
    /\ reader' = [reader EXCEPT !.pc = "unhealthy",
                                !.endpoints = HealthyEndpoints(reader.healthy,
                                                               maps[reader.unhealthy])]
    /\ UNCHANGED <<rvars, avars, pvars, boot, srv, request, ctx, mutex, checker, maps, run, probes, ticker, open, now>>

\* the loop of getStatusObject over unhealthy
StatusUnhealthy ==
    /\ reader.pc = "unhealthy"
    /\ \E u \in UnhealthyEndpoints(maps[reader.unhealthy], cfg[Shared].attempts) :
          reader' = [reader EXCEPT !.pc = "return", !.endpoints = reader.endpoints \o u]
    /\ UNCHANGED <<rvars, avars, pvars, boot, srv, request, ctx, mutex, checker, maps, run, probes, ticker, open, now>>

\* getStatusObject returns the DomainStatus
StatusReturn ==
    /\ reader.pc = "return"
    /\ reader' = NoStatus
    /\ maps' = Collect(maps, checker, run, reader')
    /\ UNCHANGED <<rvars, avars, pvars, boot, srv, request, ctx, mutex, checker, run, probes, ticker, open, now>>

NextGoroutines ==
    \/ TickerFires
    \/ RunReceive
    \/ RunLock
    \/ RunGetState
    \/ RunClone
    \/ RunCheckAll
    \/ \E i \in 1..MaxEndpoints : \E healthy \in BOOLEAN : Probe(i, healthy)
    \/ RunWait
    \/ RunLoop
    \/ RunDecide
    \/ \E err \in BOOLEAN : RunUpdateRecords(err)
    \/ RunSetStateIPs
    \/ RunSetStateFailed
    \/ RunSetStateDone
    \/ RunSetError
    \/ StatusCall
    \/ StatusLock
    \/ StatusGetState
    \/ StatusHealthy
    \/ StatusUnhealthy
    \/ StatusReturn

SpecGoroutines == InitGoroutines /\ [][NextGoroutines]_vars

(***************************************************************************)
(* Claims about the goroutines                                             *)
(***************************************************************************)

\* the positions of Run between two reconciliations: waiting for a tick, or
\* in the getState that opens the next reconciliation
Between == {"select", "getState", "read"}

\* the positions of Run inside setState and setError, the mutex taken
Writing == {"writeIPs", "writeFailed", "writeTime", "writeError"}

\* C13 (serial per domain): at most one reconciliation of the domain has
\* read the state and not ended; when Run is about to read the state for a
\* reconciliation, none is in progress; and when none is in progress no
\* probe goroutine is running and Run is neither in the provider call nor
\* in a commit. This holds whenever the ticker fires and whatever a status
\* request does.
C13_SerialPerDomain ==
    /\ open <= 1
    /\ run.pc \in Between <=> open = 0
    /\ open = 0 => \A i \in DOMAIN probes : probes[i] # "running"

\* the second reconciliation waits for a probe while the next tick is
\* already in the channel and a status request holds the mutex
C13_Witness ==
    /\ now >= 1
    /\ open = 1
    /\ run.pc = "wait"
    /\ \E i \in DOMAIN probes : probes[i] = "running"
    /\ ticker
    /\ reader.pc = "read"

\* C14 (consistent snapshot): a status request reads the fields while no
\* setState or setError is between its assignments; the healthyIPs and the
\* failedIPs it got were assigned by the same call of setState, and
\* lastUpdated and lastError by that call or a later commit; the map it got
\* has, for as long as the request uses it, the entries it had when it was
\* read; and the DomainStatus returned is the one built from these values.
C14_ConsistentSnapshot ==
    /\ reader.pc = "read" => mutex = "status" /\ run.pc \notin Writing
    /\ reader.pc \in {"healthy", "unhealthy", "return"} =>
          /\ reader.tagIPs = reader.tagFailed
          /\ reader.lastUpdated >= reader.tagIPs
          /\ reader.unhealthy \in DOMAIN maps
          /\ maps[reader.unhealthy] = reader.seen
    /\ reader.pc = "return" =>
          [error |-> reader.lastError, endpoints |-> reader.endpoints]
              \in getStatusObject(reader.healthy, reader.seen, reader.lastError,
                                  cfg[Shared].attempts)

\* a status request still uses the state it read before the last commit,
\* while the next reconciliation is writing its clone of failedIPs
C14_Witness ==
    /\ reader.pc = "unhealthy"
    /\ reader.seen # EmptyMap
    /\ reader.unhealthy # checker.failedIPs
    /\ reader.tagIPs < checker.tagIPs
    /\ run.pc = "loop"
    /\ run.i > 1
    /\ maps[run.failedIPs] # maps[checker.failedIPs]

(***************************************************************************)
(* Claims about the first reconciliations, the probes and the scheduler    *)
(***************************************************************************)

\* the IPs of the endpoints whose probe succeeded, in the declared order
RECURSIVE SucceededIPs(_, _)
SucceededIPs(endpoints, results) ==
    IF results = <<>> THEN <<>>
    ELSE LET n == Len(results)
             before == SucceededIPs(endpoints, SubSeq(results, 1, n - 1))
         IN  IF results[n] THEN Append(before, endpoints[n]) ELSE before

\* C21 (re-reconciliation after a start): the published list starts empty,
\* and a reconciliation that finds the published list empty and at least
\* one probe succeeding - the first reconciliation with a successful probe
\* after a start is one - calls UpdateRecords exactly once, with exactly the
\* IPs of the endpoints whose probe succeeded.
C21_FirstReconciliation ==
    /\ (\A d \in Domains : hist[d].outcome = "none") =>
           \A d \in Domains : dcs[d].healthyIPs = <<>>
    /\ \A d \in Domains :
          (/\ hist[d].outcome # "none"
           /\ hist[d].prev = <<>>
           /\ \E i \in DOMAIN hist[d].results : hist[d].results[i]) =>
              /\ hist[d].outcome \in {"updated", "error"}
              /\ hist[d].calls = <<SucceededIPs(cfg[d].endpoints, hist[d].results)>>

\* the first reconciliation after the start: one probe succeeds, one fails
\* with more than one attempt allowed, and the list sent leaves out the IP
\* of the failed probe
C21_Witness ==
    \E d \in Domains :
        /\ hist[d].outcome = "updated"
        /\ hist[d].prev = <<>>
        /\ hist[d].prevFailed = EmptyMap
        /\ cfg[d].attempts > 1
        /\ \E i, j \in DOMAIN hist[d].results :
              /\ hist[d].results[i]
              /\ ~hist[d].results[j]
              /\ cfg[d].endpoints[i] # cfg[d].endpoints[j]
        /\ Len(hist[d].calls) = 1
        /\ Len(hist[d].calls[1]) = 1

(***************************************************************************)
(* Part 5: the probes of one checker                                       *)
(*                                                                         *)
(* CheckAll starts one goroutine per endpoint; each runs checkEndpoint     *)
(* statement by statement against the http.Client of the checker, which    *)
(* the goroutines of this and of every later CheckAll share.               *)
(***************************************************************************)

\* ConfigEndpoint.Host: not set, or the host to put in the request
Hosts == {"", "a.test", "b.test"}

\* the endpoints of a checker: a URL http.NewRequest rejects, an http URL
\* (its Host header is not modelled), or an https URL with or without a
\* host override
EndpointKinds ==
    {[url |-> "bad", https |-> FALSE, host |-> ""],
     [url |-> "ok", https |-> FALSE, host |-> ""]} \cup
    {[url |-> "ok", https |-> TRUE, host |-> x] : x \in Hosts}

\* status codes of a first response
StatusCodes == {199, 200, 299, 300, 500}

\* what client.Do returns: an error (of the transport, TLS included, or the
\* deadline of the endpoint's context) or the first response
DoOutcomes ==
    {[err |-> e, status |-> 0] : e \in {"transport", "deadline"}} \cup
    {[err |-> "nil", status |-> c] : c \in StatusCodes}

\* no call of client.Do yet
NoOutcome == [err |-> "none", status |-> 0]

\* a checker.Result (Duration left out): Endpoint is the index of the
\* endpoint, 0 for the nil pointer
Result(endpoint, healthy, error) ==
    [Endpoint |-> endpoint, Healthy |-> healthy, Error |-> error]

\* the test of the status code with redirects counted as healthy
UnhealthyStatusFrom400(code) == code < 200 \/ code >= 400

\* resp.StatusCode < 200 || resp.StatusCode >= 300
UnhealthyStatus(code) == code < 200 \/ code >= 300

\* the Result checkEndpoint returns for endpoint i after client.Do returned
ResultOf(i, out) ==
    IF out.err # "nil" THEN Result(i, FALSE, "HTTP request failed")
    ELSE IF UnhealthyStatus(out.status) THEN Result(i, FALSE, "status code")
    ELSE Result(i, TRUE, "nil")

\* the result stored in the first slot that is still empty
StoreAppend(res, i, r) ==
    LET free == {k \in DOMAIN res : res[k].Endpoint = 0}
    IN  IF free = {} THEN res
        ELSE [res EXCEPT ![CHOOSE k \in free : \A x \in free : k <= x] = r]

\* results[i] = c.checkEndpoint(ctx, endpoint)
Store(res, i, r) == [res EXCEPT ![i] = r]

\* a goroutine of CheckAll before its first statement
NewCheck == [pc |-> "start", transport |-> "nil", sni |-> "nil", out |-> NoOutcome]

InitProbes ==
    /\ MockProvider
    /\ NoGoroutines
    /\ cfg = [d \in Domains |-> [endpoints |-> <<IPList[1]>>,
                                 attempts |-> DefaultAttempts, ttl |-> DefaultTTL]]
    /\ dcs = NewHealthChecker(cfg)
    /\ pc = "waiting"
    /\ todo = {}
    /\ cur = NoCur
    /\ hist = [d \in Domains |-> NoHist]
    /\ probeLog = FALSE
    /\ boot = NoBoot
    /\ srv = NoServer
    /\ request = NoRequest
    /\ probed \in UNION {[1..n -> EndpointKinds] : n \in 1..MaxEndpoints}
    /\ httpClient = NewClient
    /\ checks = <<>>
    /\ checkAll = NoCheckAll

\* CheckAll: the results are allocated and one goroutine per endpoint starts
CheckAllStart ==
    /\ checkAll.pc \in {"idle", "returned"}
    /\ checkAll' = [pc |-> "wait",
                    results |-> [i \in DOMAIN probed |-> Result(0, FALSE, "nil")],
                    order |-> <<>>,
                    first |-> checkAll.pc = "idle"]
    /\ checks' = [i \in DOMAIN probed |-> NewCheck]
    /\ UNCHANGED <<rvars, avars, cvars, boot, srv, request, probed, httpClient>>

\* checkEndpoint up to the choice of the transport: the request is built
\* (an error ends the probe) and, for an https URL with a host override, a
\* transport with ServerName = endpoint.Host is made, a clone of the
\* client's transport when it has one
NewRequest(i) ==
    /\ i \in DOMAIN checks
    /\ checks[i].pc = "start"
    /\ IF probed[i].url = "bad"
       THEN /\ checks' = [checks EXCEPT ![i].pc = "done"]
            /\ checkAll' = [checkAll EXCEPT
                              !.results = Store(checkAll.results, i,
                                                Result(i, FALSE, "creating request")),
                              !.order = Append(checkAll.order, i)]
       ELSE /\ checks' = [checks EXCEPT ![i] =
                            IF probed[i].host # "" /\ probed[i].https
                            THEN [@ EXCEPT !.pc = "assign", !.transport = probed[i].host]
                            ELSE [@ EXCEPT !.pc = "do"]]
            /\ UNCHANGED checkAll
    /\ UNCHANGED <<rvars, avars, cvars, boot, srv, request, probed, httpClient>>

\* client.Transport = transport, client being the pointer c.client
AssignTransport(i) ==
    /\ i \in DOMAIN checks
    /\ checks[i].pc = "assign"
    /\ httpClient' = [httpClient EXCEPT !.Transport = checks[i].transport]
    /\ checks' = [checks EXCEPT ![i].pc = "do"]
    /\ UNCHANGED <<rvars, avars, cvars, boot, srv, request, probed, checkAll>>

\* client.Do(req) sends the request with the transport the client has now
Do(i) ==
    /\ i \in DOMAIN checks
    /\ checks[i].pc = "do"
    /\ checks' = [checks EXCEPT ![i].pc = "sent", ![i].sni = httpClient.Transport]
    /\ UNCHANGED <<rvars, avars, cvars, boot, srv, request, probed, httpClient, checkAll>>

\* client.Do returns (the connection is no longer looked at), checkEndpoint
\* returns its Result, the goroutine stores it and calls wg.Done
Response(i, out) ==
    /\ i \in DOMAIN checks
    /\ checks[i].pc = "sent"
    /\ checks' = [checks EXCEPT ![i].pc = "done", ![i].out = out, ![i].sni = "nil"]
    /\ checkAll' = [checkAll EXCEPT
                      !.results = Store(checkAll.results, i, ResultOf(i, out)),
                      !.order = Append(checkAll.order, i)]
    /\ UNCHANGED <<rvars, avars, cvars, boot, srv, request, probed, httpClient>>

\* wg.Wait returns and CheckAll returns the results
CheckAllReturn ==
    /\ checkAll.pc = "wait"
    /\ Wait([i \in DOMAIN checks |-> checks[i].pc])
    /\ checkAll' = [checkAll EXCEPT !.pc = "returned"]
    /\ UNCHANGED <<rvars, avars, cvars, boot, srv, request, probed, httpClient, checks>>

NextProbes ==
    \/ CheckAllStart
    \/ \E i \in 1..MaxEndpoints : NewRequest(i)
    \/ \E i \in 1..MaxEndpoints : AssignTransport(i)
    \/ \E i \in 1..MaxEndpoints : Do(i)
    \/ \E i \in 1..MaxEndpoints : \E out \in DoOutcomes : Response(i, out)
    \/ CheckAllReturn

SpecProbes == InitProbes /\ [][NextProbes]_vars

(***************************************************************************)
(* Claims about the probes                                                 *)
(***************************************************************************)

\* the ServerName the probe of endpoint i is to use: its host override, or
\* none
OwnServerName(i) == IF probed[i].host # "" THEN probed[i].host ELSE "nil"

\* C22 (clone on write): the http.Client shared by the probes is never
\* modified - its Transport stays the one checker.New left - and every
\* https request in flight, in this and every later CheckAll, is sent with
\* the ServerName of its own endpoint's host override, and without a
\* ServerName when its endpoint has no override.
C22_CloneOnWrite ==
    /\ httpClient = NewClient
    /\ \A i \in DOMAIN checks :
          (checks[i].pc = "sent" /\ probed[i].https) =>
              checks[i].sni = OwnServerName(i)

\* C23 (fan-out and join): while CheckAll waits there is one probe per
\* endpoint; when it has returned every probe has finished exactly once,
\* and there is one result per endpoint, result i being the result of the
\* probe of endpoint i, whatever the order in which the probes finished.
C23_CheckAllOrder ==
    /\ checkAll.pc = "wait" => DOMAIN checks = DOMAIN probed
    /\ checkAll.pc = "returned" =>
          /\ \A i \in DOMAIN checks : checks[i].pc = "done"
          /\ Len(checkAll.order) = Len(probed)
          /\ {checkAll.order[k] : k \in DOMAIN checkAll.order} = DOMAIN probed
          /\ DOMAIN checkAll.results = DOMAIN probed
          /\ \A i \in DOMAIN probed :
                /\ checkAll.results[i].Endpoint = i
                /\ checkAll.results[i] =
                      (IF probed[i].url = "bad"
                       THEN Result(i, FALSE, "creating request")
                       ELSE ResultOf(i, checks[i].out))

\* CheckAll has returned after the probe of the last endpoint finished
\* first, with results that differ
C23_Witness ==
    /\ checkAll.pc = "returned"
    /\ Len(probed) > 1
    /\ checkAll.order[1] = Len(probed)
    /\ checkAll.results[1].Healthy
    /\ ~checkAll.results[Len(probed)].Healthy

\* C24 (probe result): the result of a finished probe is Healthy exactly
\* when client.Do returned a first response with a status code in
\* [200, 300); a result that is not Healthy has an Error, and a Healthy one
\* has none and names the probed endpoint.
C24_HealthyIff2xx ==
    \A i \in DOMAIN checks :
        checks[i].pc = "done" =>
            LET r == checkAll.results[i]
                o == checks[i].out
            IN  /\ r.Healthy <=> (o.err = "nil" /\ o.status >= 200 /\ o.status < 300)
                /\ ~r.Healthy => r.Error # "nil"
                /\ r.Healthy => (r.Error = "nil" /\ r.Endpoint = i)

\* one probe got the redirect 300 and is unhealthy with an error, another
\* got 299 and is healthy
C24_Witness ==
    \E i, j \in DOMAIN checks :
        /\ checks[i].pc = "done" /\ checks[j].pc = "done"
        /\ checks[i].out = [err |-> "nil", status |-> 300]
        /\ checkAll.results[i] = Result(i, FALSE, "status code")
        /\ checks[j].out = [err |-> "nil", status |-> 299]
        /\ checkAll.results[j] = Result(j, TRUE, "nil")

(***************************************************************************)
(* Part 6: the scheduler.  HealthChecker.Run makes one pass at once, then  *)
(* creates the ticker and selects between ctx.Done() and ticker.C.  The    *)
(* passes are those of Part 1, over the two domains of InitDomains; run.pc *)
(* is the position of Run: "start", "immediate" (inside the first pass),   *)
(* "select" (the ticker exists) and "returned".                            *)
(***************************************************************************)

\* the configuration of the scheduler runs: one endpoint for each domain
RunEndpoints == [d \in AllDomains |-> <<DomainEndpoints[d][1]>>]

InitRun ==
    /\ MockProvider
    /\ NoProbes
    /\ boot = NoBoot
    /\ srv = NoServer
    /\ request = NoRequest
    /\ mutex = "free"
    /\ checker = NewDomainChecker(0)
    /\ maps = EmptyMap
    /\ run = [NoRun EXCEPT !.pc = "start"]
    /\ probes = <<>>
    /\ reader = NoStatus
    /\ ticker = FALSE
    /\ open = 0
    /\ now = 0
    /\ ctx = "live"
    /\ cfg = [d \in AllDomains |-> [endpoints |-> RunEndpoints[d],
                                     attempts |-> New(0),
                                     ttl |-> Validate(0)]]
    /\ dcs = NewHealthChecker(cfg)
    /\ pc = "waiting"
    /\ todo = {}
    /\ cur = NoCur
    /\ hist = [d \in AllDomains |-> NoHist]
    /\ probeLog = FALSE

\* a Run whose first statement is the creation of the ticker: no pass is
\* made until the first tick
RunStartNoPass ==
    /\ run.pc = "start"
    /\ run' = [run EXCEPT !.pc = "immediate"]
    /\ UNCHANGED <<rvars, avars, pvars, boot, srv, request, ctx, mutex, checker, maps, probes, reader, ticker, open, now>>

\* hc.checkAndUpdateDNS(ctx), the first statement of Run after the log line
RunStart ==
    /\ run.pc = "start"
    /\ run' = [run EXCEPT !.pc = "immediate"]
    /\ pc' = "pass"
    /\ todo' = DOMAIN dcs
    /\ UNCHANGED <<cfg, dcs, cur, hist, probeLog>>
    /\ UNCHANGED <<avars, pvars, boot, srv, request, ctx, mutex, checker, maps, probes, reader, ticker, open, now>>

\* the first pass has returned: time.NewTicker(cfg.Interval)
NewTicker ==
    /\ run.pc = "immediate"
    /\ pc = "waiting"
    /\ run' = [run EXCEPT !.pc = "select"]
    /\ UNCHANGED <<rvars, avars, pvars, boot, srv, request, ctx, mutex, checker, maps, probes, reader, ticker, open, now>>

\* the runtime sends on ticker.C, a channel of capacity one; a tick that
\* finds the channel full is dropped, and a stopped ticker sends nothing
TickerSends ==
    /\ run.pc = "select"
    /\ ~ticker
    /\ ticker' = TRUE
    /\ UNCHANGED <<rvars, avars, pvars, boot, srv, request, ctx, mutex, checker, maps, run, probes, reader, open, now>>

\* case <-ticker.C: hc.checkAndUpdateDNS(ctx)
RunTick ==
    /\ run.pc = "select"
    /\ pc = "waiting"
    /\ ticker
    /\ ticker' = FALSE
    /\ pc' = "pass"
    /\ todo' = DOMAIN dcs
    /\ UNCHANGED <<cfg, dcs, cur, hist, probeLog>>
    /\ UNCHANGED <<avars, pvars, boot, srv, request, ctx, mutex, checker, maps, run, probes, reader, open, now>>

\* case <-ctx.Done(): return nil, and the deferred ticker.Stop()
RunReturn ==
    /\ run.pc = "select"
    /\ pc = "waiting"
    /\ ctx = "cancelled"
    /\ run' = [run EXCEPT !.pc = "returned"]
    /\ UNCHANGED <<rvars, avars, pvars, boot, srv, request, ctx, mutex, checker, maps, probes, reader, ticker, open, now>>

\* the caller of Run cancels the context, at any moment
Cancel ==
    /\ ctx = "live"
    /\ ctx' = "cancelled"
    /\ UNCHANGED <<rvars, avars, pvars, boot, srv, request, mutex, checker, maps, run, probes, reader, ticker, open, now>>

\* the steps of checkAndUpdateDNS and of the statements around it, which
\* Run takes whenever it can: a probe or a provider call returns, also
\* when the context is cancelled
PassStep ==
    \/ RunStart
    \/ NewTicker
    \/ EndPass
    \/ \E d \in DOMAIN cfg : \E r \in CheckAll(d) : ReconcileNoCall(d, r)
    \/ \E d \in DOMAIN cfg : \E r \in CheckAll(d) : ReconcileCall(d, r)
    \/ UpdateRecordsOK
    \/ UpdateRecordsError

NextRun ==
    \/ RunStart
    \/ NewTicker
    \/ TickerSends
    \/ RunTick
    \/ RunReturn
    \/ Cancel
    \/ EndPass
    \/ \E d \in DOMAIN cfg : \E r \in CheckAll(d) : ReconcileNoCall(d, r)
    \/ \E d \in DOMAIN cfg : \E r \in CheckAll(d) : ReconcileCall(d, r)
    \/ UpdateRecordsOK
    \/ UpdateRecordsError

\* Run is one goroutine that is never starved, and a select with several
\* ready cases picks one of them at random: a case that is ready at
\* infinitely many selects is taken
SpecRun ==
    /\ InitRun
    /\ [][NextRun]_vars
    /\ WF_vars(PassStep)
    /\ SF_vars(RunReturn)

\* C25: Run makes a pass over every domain at once, a pass for every tick
\* it receives and no other; a pass visits every domain once; Run returns
\* only on a cancelled context, and a cancelled context leads to the return
PassBegins == pc = "waiting" /\ pc' = "pass"

TickReceived == ticker /\ ~ticker'

C25_PassPerTick ==
    /\ (run.pc = "start" /\ run' # run) => (PassBegins /\ run'.pc = "immediate")
    /\ PassBegins => /\ todo' = DOMAIN dcs
                     /\ DOMAIN dcs = AllDomains
                     /\ (run.pc = "start") # TickReceived
    /\ TickReceived => PassBegins
    /\ (pc = "pass" /\ pc' = "waiting") => todo = {}
    /\ (pc \in {"pass", "calling"} /\ todo' # todo) =>
           \E d \in todo : todo' = todo \ {d}
    /\ (run'.pc = "returned" /\ run.pc # "returned") => ctx = "cancelled"

C25_Scheduler ==
    /\ [][C25_PassPerTick]_vars
    /\ <>(\A d \in AllDomains : hist[d].outcome # "none")
    /\ (ctx = "cancelled") ~> (run.pc = "returned")

\* Run has returned after a pass for a tick, a further tick left unread
C25_Witness ==
    /\ run.pc = "returned"
    /\ ctx = "cancelled"
    /\ ticker
    /\ \A d \in AllDomains : hist[d].outcome # "none" /\ hist[d].prev # <<>>

(***************************************************************************)
(* Claims about the errors of the provider API                             *)
(***************************************************************************)

\* the request the last response answers
LastRequest == log[Len(log)]

\* the response is an HTTP response (status 0 stands for a request that
\* got none) with a status outside [200,300)
NonSuccessStatus == lastResp # NoResp /\ lastResp.status # 0 /\ BadStatus(lastResp.status)

\* the 404 on the DELETE of the Azure record-set
AzureDeleteNotFound ==
    adaptor = "azure" /\ LastRequest.method = "DELETE" /\ lastResp.status = 404

\* C26: for every adaptor and every request of UpdateRecords, a response
\* with a status outside [200,300) makes UpdateRecords return an error,
\* except the 404 on the DELETE of the Azure record-set
C26_BadStatusIsError ==
    (NonSuccessStatus /\ ~AzureDeleteNotFound) => (apc = "done" /\ ret = "error")

\* C27: in the Cloudflare adaptor a response whose body reports
\* success:false makes UpdateRecords return an error, whichever request of
\* the call it answers
C27_ApiFailureIsError ==
    (adaptor = "cloudflare" /\ lastResp.body = "apifail") =>
        (apc = "done" /\ ret = "error")

(***************************************************************************)
(* Claims about the failure counters and the configuration                 *)
(***************************************************************************)

\* the count of an IP after the probes of a pass, from the count c before
\* it: a failed probe adds one up to the largest integer, a successful
\* probe makes it 0
RECURSIVE CountAfter(_, _, _, _)
CountAfter(endpoints, results, ip, c) ==
    IF results = <<>> THEN c
    ELSE CountAfter(Tail(endpoints), Tail(results), ip,
            IF Head(endpoints) # ip THEN c
            ELSE IF Head(results) THEN 0
            ELSE IF c = MaxInt THEN MaxInt
            ELSE c + 1)

\* C28: a failure count is never negative: in the map of every domain and
\* in the copy a reconciliation works on, the count of an IP is the count
\* before the pass, plus one for each failed probe up to the largest
\* integer, where it stays, and 0 after a successful probe
C28_FailureCountSaturates ==
    /\ \A d \in DOMAIN dcs : \A ip \in DOMAIN dcs[d].failedIPs :
           dcs[d].failedIPs[ip] >= 0 /\ dcs[d].failedIPs[ip] <= MaxInt
    /\ pc = "calling" =>
           \A ip \in IPs :
               MapGet(cur.failedIPs, ip) =
                   CountAfter(cfg[cur.domain].endpoints, cur.results, ip,
                              MapGet(dcs[cur.domain].failedIPs, ip))
    /\ \A d \in DOMAIN dcs :
           hist[d].outcome \in {"unchanged", "nohealthy", "updated"} =>
               \A ip \in IPs :
                   MapGet(dcs[d].failedIPs, ip) =
                       CountAfter(cfg[d].endpoints, hist[d].results, ip,
                                  MapGet(hist[d].prevFailed, ip))

\* a count at the largest integer, and one more failed probe of its IP
C28_Witness ==
    \E d \in DOMAIN dcs : \E i \in DOMAIN cfg[d].endpoints :
        LET ip == cfg[d].endpoints[i]
        IN  /\ hist[d].outcome \in {"unchanged", "nohealthy", "updated"}
            /\ MapGet(hist[d].prevFailed, ip) = MaxInt
            /\ \A j \in DOMAIN cfg[d].endpoints :
                   cfg[d].endpoints[j] = ip => ~hist[d].results[j]
            /\ MapGet(dcs[d].failedIPs, ip) = MaxInt

\* C29: a domain configured without a ttl has the TTL 120 in the
\* configuration after Validate, and UpdateRecords is called with the ttl
\* 120 for it (every domain of Init is configured without a ttl)
C29_DefaultTTL ==
    pc = "calling" => (cfg[cur.domain].ttl = DefaultTTL /\ cur.ttl = DefaultTTL)

(***************************************************************************)
(* Part 7: the start of the program.  main validates the configuration,    *)
(* builds one provider for each key of the providers map and hands the map *)
(* to NewHealthChecker; the tests call NewHealthChecker with a map of      *)
(* their own.  The configuration is valid in what does not concern the     *)
(* providers (record names, endpoints), and the engine of Part 1 runs once *)
(* the HealthChecker is built.                                             *)
(***************************************************************************)

\* the keys a providers map can have
ProviderNames == {"p1", "p2"}

\* the provider a domain names: nothing, or one of the names
ProviderRefs == {""} \cup ProviderNames

\* the test of the provider of a domain without the lookup in the map
ValidateProviderNotEmpty(providers, name) ==
    IF name = "" THEN "provider is empty" ELSE "nil"

\* Config.Validate, the tests of the provider of one domain
ValidateProvider(providers, name) ==
    IF name = "" THEN "provider is empty"
    ELSE IF name \notin providers THEN "provider does not exist"
    ELSE "nil"

\* Config.Validate, the tests that concern the providers: the map is not
\* empty, and the first error of a domain is returned
ValidateConfig(providers, uses) ==
    IF providers = {} THEN "at least one provider must be configured"
    ELSE IF \E d \in DOMAIN uses : ValidateProvider(providers, uses[d]) # "nil"
    THEN "domain is invalid"
    ELSE "nil"

\* provider, ok := dnsProviders[d.Provider]; !ok || provider == nil
NotConfigured(dnsProviders, name) ==
    name \notin DOMAIN dnsProviders \/ dnsProviders[name] = "nil"

\* the maps a caller can hand to NewHealthChecker
ProviderMaps == UNION {[names -> {"instance", "nil"}] : names \in SUBSET ProviderNames}

InitBoot ==
    /\ MockProvider
    /\ NoGoroutines
    /\ NoProbes
    /\ srv = NoServer
    /\ request = NoRequest
    /\ boot \in {b \in [pc : {"main", "direct"}, providers : SUBSET ProviderNames,
                        uses : [AllDomains -> ProviderRefs],
                        dnsProviders : ProviderMaps, err : {"nil"}] :
                    /\ b.pc = "main" => b.dnsProviders = EmptyMap
                    /\ b.pc = "direct" => b.providers = {}}
    /\ cfg = [d \in AllDomains |-> [endpoints |-> RunEndpoints[d],
                                     attempts |-> New(0),
                                     ttl |-> Validate(0)]]
    /\ dcs = EmptyMap
    /\ pc = "boot"
    /\ todo = {}
    /\ cur = NoCur
    /\ hist = [d \in AllDomains |-> NoHist]
    /\ probeLog = FALSE

\* main: cfg.Validate(log), and the exit on an error
BootValidate ==
    /\ boot.pc = "main"
    /\ LET err == ValidateConfig(boot.providers, boot.uses)
       IN  boot' = [boot EXCEPT !.err = err,
                                !.pc = IF err = "nil" THEN "validated" ELSE "fatal"]
    /\ UNCHANGED <<rvars, avars, cvars, pvars, srv, request>>

\* main: dns.NewProvider for each key of cfg.Providers, and the exit when
\* one of them returns an error
BootProviders(ok) ==
    /\ boot.pc = "validated"
    /\ boot' = IF ok
               THEN [boot EXCEPT !.pc = "providers",
                                 !.dnsProviders = [n \in boot.providers |-> "instance"]]
               ELSE [boot EXCEPT !.pc = "fatal", !.err = "Failed to init DNS provider"]
    /\ UNCHANGED <<rvars, avars, cvars, pvars, srv, request>>

\* NewHealthChecker(dnsProviders, metrics), called by main or by a test:
\* an error for the first domain whose provider is not in the map, and
\* the HealthChecker, which Run then drives, otherwise
BootNewHealthChecker ==
    /\ boot.pc \in {"providers", "direct"}
    /\ IF \E d \in DOMAIN cfg : NotConfigured(boot.dnsProviders, boot.uses[d])
       THEN /\ boot' = [boot EXCEPT !.pc = "fatal",
                                    !.err = "references DNS provider that is not configured"]
            /\ UNCHANGED <<dcs, pc>>
       ELSE /\ boot' = [boot EXCEPT !.pc = "running"]
            /\ dcs' = NewHealthChecker(cfg)
            /\ pc' = "waiting"
    /\ UNCHANGED <<cfg, todo, cur, hist, probeLog, avars, cvars, pvars, srv, request>>

NextBoot ==
    \/ BootValidate
    \/ \E ok \in BOOLEAN : BootProviders(ok)
    \/ BootNewHealthChecker
    \/ Next

SpecBoot == InitBoot /\ [][NextBoot]_vars

\* the domain names a provider that the map holds an instance of
ProviderOf(d) ==
    /\ boot.uses[d] \in DOMAIN boot.dnsProviders
    /\ boot.dnsProviders[boot.uses[d]] = "instance"

\* C30: Validate returns an error when a domain names a provider that is
\* not a key of the providers map, NewHealthChecker returns an error when
\* the map it gets has no instance for the provider of a domain, and no
\* reconciliation runs for a domain without a provider
C30_UnknownProviderRejected ==
    /\ boot.pc \in {"validated", "providers"} =>
           \A d \in AllDomains : boot.uses[d] \in boot.providers
    /\ boot.pc = "running" => \A d \in AllDomains : ProviderOf(d)
    /\ boot.pc = "fatal" <=> boot.err # "nil"
    /\ boot.pc # "running" => (pc = "boot" /\ dcs = EmptyMap)
    /\ \A d \in AllDomains :
           (d \in todo \/ cur.domain = d \/ hist[d].outcome # "none") => ProviderOf(d)

\* Validate has rejected a configuration whose only fault is the name of a
\* provider that the providers map does not have
C30_Witness ==
    /\ boot.pc = "fatal"
    /\ boot.err = "domain is invalid"
    /\ boot.providers = {"p1"}
    /\ boot.uses["example.com"] = "p1"
    /\ boot.uses["test.com"] = "p2"
    /\ pc = "boot"

(***************************************************************************)
(* Part 8: the status server of pkg/server.  Server.Run is modelled        *)
(* statement by statement for two callers: the running flag, the           *)
(* WaitGroup, the listener (nil, open or closed), the goroutine of         *)
(* http.Server.Serve and the deferred calls in their order.  pc of a call: *)
(* "cas", "add", "start", "block" (<-ctx.Done()), "shutdown" (the deferred *)
(* func), "wait" (the deferred s.wg.Wait()), "store" (the deferred         *)
(* s.running.Store(false)), "returned".                                    *)
(***************************************************************************)

\* the errors of Run
ErrAlreadyRunning == "server is already running"

ErrStartAppServer == "failed to start app server"

\* the call c with its position and return value changed
SetCall(c, to, err) == [srv.calls EXCEPT ![c] = [@ EXCEPT !.pc = to, !.ret = err]]

\* the Server of a test has the listener the test made, that of main none
InitServer ==
    /\ MockProvider
    /\ NoGoroutines
    /\ NoProbes
    /\ boot = NoBoot
    /\ srv \in {[NoServer EXCEPT !.appListener = l] : l \in {"nil", "open"}}
    /\ request = NoRequest
    /\ cfg = [d \in Domains |-> [endpoints |-> <<IPList[1]>>,
                                 attempts |-> DefaultAttempts, ttl |-> Validate(0)]]
    /\ dcs = NewHealthChecker(cfg)
    /\ pc = "waiting"
    /\ todo = {}
    /\ cur = NoCur
    /\ hist = [d \in Domains |-> NoHist]
    /\ probeLog = FALSE

\* s.Run(ctx) is called, by the service runner or by a test
RunCalled(c) ==
    /\ ~srv.exited
    /\ srv.calls[c].pc \in {"idle", "returned"}
    /\ srv' = [srv EXCEPT !.calls[c] = [pc |-> "cas", ret |-> "none", ctx |-> "live"]]
    /\ UNCHANGED <<rvars, avars, cvars, pvars, boot, request>>

\* the test of the flag without the swap: the flag is set by the next
\* statement
CompareThenSwap(c) ==
    /\ ~srv.exited
    /\ srv.calls[c].pc = "cas"
    /\ srv' = IF srv.running
              THEN [srv EXCEPT !.calls = SetCall(c, "returned", ErrAlreadyRunning)]
              ELSE [srv EXCEPT !.calls = SetCall(c, "add", "none")]
    /\ UNCHANGED <<rvars, avars, cvars, pvars, boot, request>>

\* if !s.running.CompareAndSwap(false, true) { return errors.New(...) }
CompareAndSwap(c) ==
    /\ ~srv.exited
    /\ srv.calls[c].pc = "cas"
    /\ srv' = IF srv.running
              THEN [srv EXCEPT !.calls = SetCall(c, "returned", ErrAlreadyRunning)]
              ELSE [srv EXCEPT !.running = TRUE, !.calls = SetCall(c, "add", "none")]
    /\ UNCHANGED <<rvars, avars, cvars, pvars, boot, request>>

\* s.wg.Add(1), after the two defers (running.Store(false), wg.Wait())
WgAdd(c) ==
    /\ ~srv.exited
    /\ srv.calls[c].pc = "add"
    /\ srv' = [srv EXCEPT !.wg = @ + 1, !.calls = SetCall(c, "start", "none")]
    /\ UNCHANGED <<rvars, avars, cvars, pvars, boot, request>>

\* startAppServer with a listener to create: net.Listen succeeds (ok) or
\* fails; on the error Run returns through the defers registered so far
startAppServerListen(c, ok) ==
    /\ ~srv.exited
    /\ srv.calls[c].pc = "start"
    /\ srv.appListener = "nil"
    /\ srv' = IF ok
              THEN [srv EXCEPT !.appListener = "open", !.serving = TRUE,
                               !.calls = SetCall(c, "block", "none")]
              ELSE [srv EXCEPT !.calls = SetCall(c, "wait", ErrStartAppServer)]
    /\ UNCHANGED <<rvars, avars, cvars, pvars, boot, request>>

\* startAppServer with s.appListener set: the goroutine serves on it
startAppServerReuse(c) ==
    /\ ~srv.exited
    /\ srv.calls[c].pc = "start"
    /\ srv.appListener # "nil"
    /\ srv' = [srv EXCEPT !.serving = TRUE, !.calls = SetCall(c, "block", "none")]
    /\ UNCHANGED <<rvars, avars, cvars, pvars, boot, request>>

\* the goroutine of startAppServer: Serve on a closed listener returns an
\* error that is not http.ErrServerClosed, and utils.FatalError ends the
\* process
ServeFails ==
    /\ ~srv.exited
    /\ srv.serving
    /\ srv.appListener = "closed"
    /\ srv' = [srv EXCEPT !.exited = TRUE, !.serving = FALSE]
    /\ UNCHANGED <<rvars, avars, cvars, pvars, boot, request>>

\* the caller cancels the context of its call
CancelRun(c) ==
    /\ ~srv.exited
    /\ srv.calls[c].pc \notin {"idle", "returned"}
    /\ srv.calls[c].ctx = "live"
    /\ srv' = [srv EXCEPT !.calls[c].ctx = "cancelled"]
    /\ UNCHANGED <<rvars, avars, cvars, pvars, boot, request>>

\* <-ctx.Done(); return nil
CtxDone(c) ==
    /\ ~srv.exited
    /\ srv.calls[c].pc = "block"
    /\ srv.calls[c].ctx = "cancelled"
    /\ srv' = [srv EXCEPT !.calls = SetCall(c, "shutdown", "nil")]
    /\ UNCHANGED <<rvars, avars, cvars, pvars, boot, request>>

\* the deferred func: s.appSrv.Shutdown closes the listener and makes
\* Serve return http.ErrServerClosed; then the deferred s.wg.Done()
Shutdown(c) ==
    /\ ~srv.exited
    /\ srv.calls[c].pc = "shutdown"
    /\ srv' = [srv EXCEPT !.appListener = "closed", !.serving = FALSE, !.wg = @ - 1,
                          !.calls = SetCall(c, "wait", srv.calls[c].ret)]
    /\ UNCHANGED <<rvars, avars, cvars, pvars, boot, request>>

\* the deferred s.wg.Wait(): returns when the counter is zero
WgWait(c) ==
    /\ ~srv.exited
    /\ srv.calls[c].pc = "wait"
    /\ srv.wg = 0
    /\ srv' = [srv EXCEPT !.calls = SetCall(c, "store", srv.calls[c].ret)]
    /\ UNCHANGED <<rvars, avars, cvars, pvars, boot, request>>

\* the deferred s.running.Store(false), and the return to the caller
RunningStore(c) ==
    /\ ~srv.exited
    /\ srv.calls[c].pc = "store"
    /\ srv' = [srv EXCEPT !.running = FALSE,
                          !.calls = SetCall(c, "returned", srv.calls[c].ret)]
    /\ UNCHANGED <<rvars, avars, cvars, pvars, boot, request>>

\* the statements of Run and of the goroutine it starts, which the Go
\* scheduler runs whenever they can run
ServerStep ==
    \/ \E c \in Callers : CompareAndSwap(c)
    \/ \E c \in Callers : WgAdd(c)
    \/ \E c \in Callers : \E ok \in BOOLEAN : startAppServerListen(c, ok)
    \/ \E c \in Callers : startAppServerReuse(c)
    \/ ServeFails
    \/ \E c \in Callers : CtxDone(c)
    \/ \E c \in Callers : Shutdown(c)
    \/ \E c \in Callers : WgWait(c)
    \/ \E c \in Callers : RunningStore(c)

NextServer ==
    \/ \E c \in Callers : RunCalled(c)
    \/ \E c \in Callers : CancelRun(c)
    \/ \E c \in Callers : CompareAndSwap(c)
    \/ \E c \in Callers : WgAdd(c)
    \/ \E c \in Callers : \E ok \in BOOLEAN : startAppServerListen(c, ok)
    \/ \E c \in Callers : startAppServerReuse(c)
    \/ ServeFails
    \/ \E c \in Callers : CtxDone(c)
    \/ \E c \in Callers : Shutdown(c)
    \/ \E c \in Callers : WgWait(c)
    \/ \E c \in Callers : RunningStore(c)

SpecServer == InitServer /\ [][NextServer]_vars /\ WF_vars(ServerStep)

\* the calls of Run between the swap of the flag and its reset
Active == {c \in Callers : srv.calls[c].pc \in {"add", "start", "block", "shutdown", "wait", "store"}}

\* C31: when the listener cannot be created, Run terminates and returns a
\* non-nil error to its caller
C31_BindFailureReturns ==
    \A c \in Callers :
        (srv.calls[c].ret = ErrStartAppServer) ~>
            (srv.calls[c].pc = "returned" /\ srv.calls[c].ret = ErrStartAppServer)

\* the step is the test of the flag by the call c
SwapBy(c) == srv.calls[c].pc = "cas" /\ srv'.calls[c].pc # "cas"

\* C40: at most one call of Run is past the test of the flag; a call made
\* while another is active returns "server is already running" and leaves
\* the listener, the WaitGroup and the flag alone; the flag is true
\* exactly while a call is active, so a call made after the return of the
\* active one is accepted
C40_RunStep ==
    /\ Cardinality(Active') <= 1
    /\ srv'.running <=> Active' # {}
    /\ \A c \in Callers :
           SwapBy(c) =>
               IF Active # {}
               THEN /\ srv'.calls[c].pc = "returned"
                    /\ srv'.calls[c].ret = ErrAlreadyRunning
                    /\ srv' = [srv EXCEPT !.calls[c] = srv'.calls[c]]
               ELSE /\ srv'.calls[c].pc = "add"
                    /\ srv'.calls[c].ret = "none"

C40_RunMutuallyExclusive == [][C40_RunStep]_vars

\* a call was refused while the other was active, and the other has
\* returned nil since
C40_Witness ==
    /\ srv.calls[2].pc = "returned"
    /\ srv.calls[2].ret = ErrAlreadyRunning
    /\ srv.calls[1].pc = "returned"
    /\ srv.calls[1].ret = "nil"
    /\ ~srv.running

(***************************************************************************)
(* The handler of GET /api/status/{recordname}, served while the engine    *)
(* of Part 1 runs                                                          *)
(***************************************************************************)

\* the values of the path parameter: nothing, the configured domain and a
\* name that is not configured
RecordNames == {""} \cup AllDomains

\* errStatusRecordNameEmpty, errStatusDomainNotFound and the JSON answer
ResponseOf(code, body) == [code |-> code, body |-> body]

\* the handler without the test of the value GetDomainStatus returns
StatusHandlerNoLookup(recordName) ==
    IF recordName = "" THEN {ResponseOf(400, "none")}
    ELSE IF recordName \notin DOMAIN dcs THEN {ResponseOf(200, "none")}
    ELSE {ResponseOf(200, st) : st \in GetDomainStatus(recordName)}

\* the handler: 400 without a name, 404 when GetDomainStatus finds no
\* domainChecker under the name and returns nil, the status otherwise
StatusHandler(recordName) ==
    IF recordName = "" THEN {ResponseOf(400, "none")}
    ELSE IF recordName \notin DOMAIN dcs THEN {ResponseOf(404, "none")}
    ELSE {ResponseOf(200, st) : st \in GetDomainStatus(recordName)}

\* a Server whose Run is blocked on its context, the listener open
Serving ==
    [NoServer EXCEPT !.running = TRUE, !.wg = 1, !.appListener = "open",
                     !.serving = TRUE, !.calls[1].pc = "block"]

InitStatus ==
    /\ MockProvider
    /\ NoGoroutines
    /\ NoProbes
    /\ boot = NoBoot
    /\ srv = Serving
    /\ request = NoRequest
    /\ cfg \in [Domains -> [endpoints : {DomainEndpoints[d] : d \in AllDomains},
                            attempts : {New(a) : a \in 0..1},
                            ttl : {Validate(t) : t \in TTLCfg}]]
    /\ dcs = NewHealthChecker(cfg)
    /\ pc = "waiting"
    /\ todo = {}
    /\ cur = NoCur
    /\ hist = [d \in Domains |-> NoHist]
    /\ probeLog = FALSE

\* one request GET /api/status/{recordname} and its answer
GetStatus(recordName) ==
    /\ srv.serving
    /\ \E resp \in StatusHandler(recordName) :
           srv' = [srv EXCEPT !.req = recordName, !.resp = resp]
    /\ UNCHANGED <<rvars, avars, cvars, pvars, boot, request>>

NextStatus ==
    \/ \E recordName \in RecordNames : GetStatus(recordName)
    \/ Next

SpecStatus == InitStatus /\ [][NextStatus]_vars

\* C32: a request for a configured domain is answered 200 with a status
\* of that domain as it is then, a request for any other name 404, and the
\* request leaves the state of the domains as it was
C32_Request ==
    srv' # srv =>
        /\ srv'.req \in DOMAIN cfg =>
               /\ srv'.resp.code = 200
               /\ srv'.resp.body \in GetDomainStatus(srv'.req)
        /\ (srv'.req \notin DOMAIN cfg /\ srv'.req # "") => srv'.resp = ResponseOf(404, "none")
        /\ srv'.resp.code = 200 => srv'.req \in DOMAIN cfg
        /\ UNCHANGED <<rvars, avars, cvars>>

C32_StatusByName == [][C32_Request]_vars

\* the status of the domain answered with both endpoints in it, one of
\* them unhealthy
C32_Witness ==
    /\ srv.req \in DOMAIN cfg
    /\ srv.resp.code = 200
    /\ \E i, j \in DOMAIN srv.resp.body.endpoints :
           srv.resp.body.endpoints[i].healthy /\ ~srv.resp.body.endpoints[j].healthy

(***************************************************************************)
(* Part 9: the names and the records the adaptors select.  A name is the   *)
(* sequence of its characters.  The OVH adaptor derives the subdomain of   *)
(* the zone from the domain before its first request.                      *)
(***************************************************************************)

\* the characters of a name
Chars == {"a", "b", "."}

\* largest length of a domain name
MaxName == 3

\* the domains passed to UpdateRecords
DomainNames == UNION {[1..n -> Chars] : n \in 1..MaxName}

\* the zoneName of the provider
ZoneNames == {<<"b">>, <<"a", "b">>}

\* getExistingRecords of OVH without the error: what is not under the zone
\* is looked up as the zone itself
SubDomainOrZone(domain, zone) ==
    IF domain # zone /\ Len(domain) > Len(zone) + 1
          /\ SubSeq(domain, Len(domain) - Len(zone), Len(domain)) = <<".">> \o zone
    THEN [err |-> FALSE, subDomain |-> SubSeq(domain, 1, Len(domain) - Len(zone) - 1)]
    ELSE [err |-> FALSE, subDomain |-> <<>>]

\* getExistingRecords of OVH, "Extract subdomain from full domain":
\* domain[len(domain)-len(o.zoneName)-1:] == "."+o.zoneName
SubDomain(domain, zone) ==
    IF domain = zone THEN [err |-> FALSE, subDomain |-> <<>>]
    ELSE IF /\ Len(domain) > Len(zone) + 1
            /\ SubSeq(domain, Len(domain) - Len(zone), Len(domain)) = <<".">> \o zone
    THEN [err |-> FALSE, subDomain |-> SubSeq(domain, 1, Len(domain) - Len(zone) - 1)]
    ELSE [err |-> TRUE, subDomain |-> <<>>]

\* the OVH adaptor on a provider that holds at most one record of the
\* domain
InitOVH ==
    /\ cfg = [d \in Domains |-> [endpoints |-> <<IPList[1]>>,
                                 attempts |-> DefaultAttempts, ttl |-> DefaultTTL]]
    /\ dcs = NewHealthChecker(cfg)
    /\ pc = "waiting"
    /\ todo = {}
    /\ cur = NoCur
    /\ hist = [d \in Domains |-> NoHist]
    /\ probeLog = FALSE
    /\ adaptor = "ovh"
    /\ records \in {r \in RecordStates : Cardinality(DOMAIN r) <= 1}
    /\ rset = NoRecordSet
    /\ apc = "idle"
    /\ call = NoCall
    /\ pre = [records |-> records, rset |-> rset]
    /\ existingRecords = <<>>
    /\ pending = <<>>
    /\ plan = <<>>
    /\ log = <<>>
    /\ lastResp = NoResp
    /\ ret = "none"
    /\ NoGoroutines
    /\ NoProbes
    /\ boot = NoBoot
    /\ srv = NoServer
    /\ request = NoRequest

\* OVHProvider.UpdateRecords(ctx, domain, ttl, ips) on a provider of the
\* zone, up to the subdomain: an error returns before any request
UpdateRecordsOVH(domain, zone, ttl, ips) ==
    /\ adaptor = "ovh"
    /\ apc = "idle"
    /\ call' = [ttl |-> ttl, ips |-> ips, given |-> ips, again |-> FALSE,
                domain |-> domain, zone |-> zone,
                subDomain |-> SubDomain(domain, zone).subDomain]
    /\ IF SubDomain(domain, zone).err
       THEN apc' = "done" /\ ret' = "error"
       ELSE apc' = "read" /\ ret' = "none"
    /\ UNCHANGED <<adaptor, records, rset, pre, existingRecords, pending, plan, log,
                   lastResp, rvars, cvars, pvars, boot, srv, request>>

NextOVH ==
    \/ \E domain \in DomainNames : \E zone \in ZoneNames : \E t \in CallTTLs :
          \E ips \in {l \in IPLists : Len(l) <= 1} : UpdateRecordsOVH(domain, zone, t, ips)
    \/ \E resp \in Responses(adaptor) : getExistingRecords(resp)
    \/ \E resp \in Responses(adaptor) : getRecord(resp)
    \/ \E resp \in WriteResponses(adaptor) : deleteRecord(resp)
    \/ \E resp \in WriteResponses(adaptor) : createRecord(resp)
    \/ ReturnNil

SpecOVH == InitOVH /\ [][NextOVH]_vars

\* the domain is the name d followed by "." and the zone
UnderZone(domain, zone) == \E d \in DomainNames \cup {<<>>} : domain = d \o <<".">> \o zone

\* C33: UpdateRecords of OVH for a domain that is neither the zone nor a
\* name ending in "." and the zone returns an error and no request has
\* been issued
C33_DomainOutsideZone ==
    (apc # "idle" /\ call.domain # call.zone /\ ~UnderZone(call.domain, call.zone)) =>
        (apc = "done" /\ ret = "error" /\ log = <<>>)

\* "ab" is not under the zone "b"
C33_Witness ==
    /\ apc = "done"
    /\ ret = "error"
    /\ log = <<>>
    /\ call.domain = <<"a", "b">>
    /\ call.zone = <<"b">>

(***************************************************************************)
(* The Unifi adaptor on a controller that holds records of any key, type   *)
(* and state: getExistingRecords keeps the enabled A records of the domain *)
(***************************************************************************)

\* the domain of the calls, and a key that is not the domain
CallDomain == "example.com"

RecordKeys == AllDomains

\* the static-dns records a controller can hold: those the adaptor makes
\* and those that differ from them in the key, the type or the state
UnifiRecords ==
    {r \in [content : {IPList[1], IPList[2]}, ttl : CallTTLs, key : RecordKeys,
            recordType : {"A", "CNAME"}, enabled : BOOLEAN] :
        \/ r.key = CallDomain /\ r.recordType = "A"
        \/ r.key = CallDomain /\ r.enabled
        \/ r.recordType = "A" /\ r.enabled}

UnifiRecordStates == UNION {[ids -> UnifiRecords] : ids \in SUBSET (1..MaxRecords)}

\* the filter of getExistingRecords without the test of Enabled
FilterKeyAndType(record, domain) == record.key = domain /\ record.recordType = "A"

\* record.Key == domain && record.RecordType == "A" && record.Enabled
Filter(record, domain) ==
    record.key = domain /\ record.recordType = "A" /\ record.enabled

\* filteredRecords: the records of the answer that pass the filter, by id
RECURSIVE FilteredFrom(_, _, _)
FilteredFrom(recs, id, domain) ==
    IF id > MaxRecords THEN <<>>
    ELSE (IF id \in DOMAIN recs /\ Filter(recs[id], domain)
          THEN <<[id |-> id, content |-> recs[id].content]>> ELSE <<>>)
         \o FilteredFrom(recs, id + 1, domain)

InitUnifi ==
    /\ cfg = [d \in Domains |-> [endpoints |-> <<IPList[1]>>,
                                 attempts |-> DefaultAttempts, ttl |-> DefaultTTL]]
    /\ dcs = NewHealthChecker(cfg)
    /\ pc = "waiting"
    /\ todo = {}
    /\ cur = NoCur
    /\ hist = [d \in Domains |-> NoHist]
    /\ probeLog = FALSE
    /\ adaptor = "unifi"
    /\ records \in UnifiRecordStates
    /\ rset = NoRecordSet
    /\ apc = "idle"
    /\ call = NoCall
    /\ pre = [records |-> records, rset |-> rset]
    /\ existingRecords = <<>>
    /\ pending = <<>>
    /\ plan = <<>>
    /\ log = <<>>
    /\ lastResp = NoResp
    /\ ret = "none"
    /\ NoGoroutines
    /\ NoProbes
    /\ boot = NoBoot
    /\ srv = NoServer
    /\ request = NoRequest

\* UnifiProvider.UpdateRecords(ctx, CallDomain, ttl, ips) is called
UpdateRecordsUnifi(ttl, ips) ==
    /\ apc = "idle"
    /\ apc' = "read"
    /\ call' = [ttl |-> ttl, ips |-> ips, given |-> ips, again |-> FALSE]
    /\ pre' = [records |-> records, rset |-> rset]
    /\ UNCHANGED <<adaptor, records, rset, existingRecords, pending, plan, log,
                   lastResp, ret, rvars, cvars, pvars, boot, srv, request>>

\* getExistingRecords of Unifi: the GET of all the static-dns records and
\* the filter; the two loops of UpdateRecords run on what is left
getExistingRecordsUnifi(resp) ==
    /\ adaptor = "unifi"
    /\ apc = "read"
    /\ lastResp' = resp
    /\ LET err == ReadFails(adaptor, resp)
           filteredRecords == FilteredFrom(records, 1, CallDomain)
       IN  /\ log' = Append(log, Issued("GET", 0, <<>>, err))
           /\ IF err
              THEN /\ ret' = "error"
                   /\ apc' = "done"
                   /\ UNCHANGED <<existingRecords, plan>>
              ELSE /\ ret' = "none"
                   /\ existingRecords' = filteredRecords
                   /\ plan' \in Plans(filteredRecords, call.ips)
                   /\ apc' = "write"
    /\ UNCHANGED <<adaptor, records, rset, call, pre, pending, rvars, cvars, pvars, boot, srv, request>>

\* createRecord of Unifi: the POST of an enabled A record of the domain
createRecordUnifi(resp) ==
    /\ apc = "write"
    /\ plan # <<>>
    /\ Head(plan).method = "POST"
    /\ Applied(resp) => FreeIds # {}
    /\ lastResp' = resp
    /\ LET req == Head(plan)
           err == WriteFails(adaptor, "POST", resp)
           after == ReturnOnError(err, Tail(plan))
           id == CHOOSE x \in FreeIds : \A y \in FreeIds : x <= y
       IN  /\ log' = Append(log, Issued("POST", 0, req.ips, err))
           /\ IF Applied(resp)
              THEN records' = [x \in (DOMAIN records) \cup {id} |->
                                 IF x = id
                                 THEN [content |-> req.ips[1], ttl |-> call.ttl,
                                       key |-> CallDomain, recordType |-> "A",
                                       enabled |-> TRUE]
                                 ELSE records[x]]
              ELSE UNCHANGED records
           /\ apc' = after.apc
           /\ ret' = after.ret
           /\ plan' = after.plan
    /\ UNCHANGED <<adaptor, rset, call, pre, existingRecords, pending, rvars, cvars, pvars, boot, srv, request>>

NextUnifi ==
    \/ \E t \in CallTTLs : \E ips \in IPLists : UpdateRecordsUnifi(t, ips)
    \/ \E resp \in Responses(adaptor) : getExistingRecordsUnifi(resp)
    \/ \E resp \in WriteResponses(adaptor) : deleteRecord(resp)
    \/ \E resp \in WriteResponses(adaptor) : createRecordUnifi(resp)
    \/ ReturnNil

SpecUnifi == InitUnifi /\ [][NextUnifi]_vars

\* an enabled A record of the domain
OwnRecord(r) == r.enabled /\ r.recordType = "A" /\ r.key = CallDomain

\* C34: the records UpdateRecords of Unifi counts as existing are enabled
\* A records of the domain, and every record found at the call that is
\* disabled, not of type A or of another key is still there, unchanged
C34_UnifiOnlyOwnRecords ==
    /\ \A i \in DOMAIN existingRecords : OwnRecord(pre.records[existingRecords[i].id])
    /\ \A id \in DOMAIN pre.records :
           ~OwnRecord(pre.records[id]) =>
               (id \in DOMAIN records /\ records[id] = pre.records[id])
    /\ \A i \in DOMAIN log :
           log[i].method = "DELETE" => OwnRecord(pre.records[log[i].id])

\* a disabled record of an IP that is passed: the record is kept and a new
\* one is created, while the enabled record of the other IP is deleted
C34_Witness ==
    /\ apc = "done"
    /\ ret = "nil"
    /\ \E id \in DOMAIN pre.records :
           /\ ~pre.records[id].enabled
           /\ pre.records[id].content \in SetOf(call.given)
           /\ id \in DOMAIN records
           /\ \E i \in DOMAIN log :
                  log[i].method = "POST" /\ log[i].ips = <<pre.records[id].content>>
    /\ \E i \in DOMAIN log : log[i].method = "DELETE"

(***************************************************************************)
(* A failed UpdateRecords and the failure counts                           *)
(***************************************************************************)

\* a step of checkAndUpdateDNS in which UpdateRecords returned an error
UpdateFailed == pc = "calling" /\ pc' = "pass" /\ hist'[cur.domain].outcome = "error"

\* C36: when UpdateRecords fails, the failure counts and the published list
\* of the domain are what they were before the reconciliation, lastError is
\* set, and no other domain is touched
C36_Step ==
    UpdateFailed =>
        /\ dcs'[cur.domain].failedIPs = dcs[cur.domain].failedIPs
        /\ dcs'[cur.domain].healthyIPs = dcs[cur.domain].healthyIPs
        /\ dcs'[cur.domain].lastError # ""
        /\ \A d \in DOMAIN dcs : d # cur.domain => dcs'[d] = dcs[d]

C36_FailedUpdateKeepsCounts == [][C36_Step]_vars

\* a failed update after a pass that counted a failure: this pass counted
\* one more and removed the endpoint, and the stored count is the old one
C36_Witness ==
    \E d \in DOMAIN dcs :
        /\ hist[d].outcome = "error"
        /\ dcs[d].lastError # ""
        /\ hist[d].prevFailed # EmptyMap
        /\ dcs[d].failedIPs = hist[d].prevFailed
        /\ \E i \in DOMAIN hist[d].results : ~hist[d].results[i]
        /\ \E i \in DOMAIN hist[d].results : hist[d].results[i]

(***************************************************************************)
(* Endpoints of one domain that share an IP                                *)
(***************************************************************************)

\* a list without a repeated element
NoRepeat(list) == \A i, j \in 1..Len(list) : i # j => list[i] # list[j]

\* C37: for every accepted configuration the published list of a domain
\* holds no IP twice and no status object of the domain has two entries of
\* one IP
C37_EachIPOnce ==
    \A d \in Domains :
        /\ NoRepeat(dcs[d].healthyIPs)
        /\ \A st \in GetDomainStatus(d) :
               NoRepeat([i \in 1..Len(st.endpoints) |-> st.endpoints[i].ip])

(***************************************************************************)
(* The status of the answer to a mutating request                          *)
(***************************************************************************)

\* the last request is a DELETE, a POST or a PUT and its answer has a status
\* in [200,300)
MutatingAccepted ==
    /\ log # <<>>
    /\ LastRequest.method \in {"DELETE", "POST", "PUT"}
    /\ ~BadStatus(lastResp.status)

\* C39: in every adaptor a mutating request answered with a status in
\* [200,300) is not an error of the request and UpdateRecords does not
\* return an error on it
C39_SuccessStatusAccepted ==
    MutatingAccepted => (~LastRequest.err /\ ret # "error")

(***************************************************************************)
(* Part 10: one API request of an adaptor and its timeout context          *)
(*                                                                         *)
(* Cloudflare, OVH and Azure make the context, send the request and read   *)
(* the response in one function, whose deferred cancel runs at its return. *)
(* Unifi makes the context in doRequest, which returns the response to     *)
(* getExistingRecords, deleteRecord or createRecord: the deferred cancel   *)
(* of doRequest runs before they look at the response.                     *)
(***************************************************************************)

\* the methods of the requests of adaptor a
MethodsOf(a) == IF a = "azure" THEN {"GET", "PUT", "DELETE"} ELSE {"GET", "POST", "DELETE"}

\* Unifi doRequest returns the response: `defer cancel()` runs
doRequestReturns(r) == [r EXCEPT !.pc = "status", !.reqCtx = "cancelled"]

\* what reading the body of a response gives: the body, or the error of the
\* context when the context was cancelled before the body was read whole
BodyReads(r) == IF r.reqCtx = "cancelled" THEN {"read", "context canceled"} ELSE {"read"}

\* the caller reads the body: the GET decodes it (Cloudflare whatever the
\* status), the others read it for the message of a bad status
ReadsBody(a, r) ==
    \/ r.method = "GET"
    \/ WriteFails(a, r.method, [status |-> r.status, body |-> "ok"])

InitRequest ==
    /\ cfg = [d \in Domains |-> [endpoints |-> <<IPList[1]>>,
                                 attempts |-> DefaultAttempts, ttl |-> DefaultTTL]]
    /\ dcs = NewHealthChecker(cfg)
    /\ pc = "waiting"
    /\ todo = {}
    /\ cur = NoCur
    /\ hist = [d \in Domains |-> NoHist]
    /\ probeLog = FALSE
    /\ adaptor \in Adaptors
    /\ records = <<>>
    /\ rset = NoRecordSet
    /\ apc = "idle"
    /\ call = NoCall
    /\ pre = [records |-> records, rset |-> rset]
    /\ existingRecords = <<>>
    /\ pending = <<>>
    /\ plan = <<>>
    /\ log = <<>>
    /\ lastResp = NoResp
    /\ ret = "none"
    /\ NoGoroutines
    /\ NoProbes
    /\ boot = NoBoot
    /\ srv = NoServer
    /\ request = NoRequest

RequestUnchanged == UNCHANGED <<rvars, avars, cvars, pvars, boot, srv>>

\* context.WithTimeout(ctx, 20*time.Second) and http.NewRequestWithContext
WithTimeout(method) ==
    /\ request.pc \in {"idle", "returned"}
    /\ request' = [NoRequest EXCEPT !.pc = "do", !.method = method, !.reqCtx = "live"]
    /\ RequestUnchanged

\* httpClient.Do returns an error: the function returns it, cancel runs
DoFails ==
    /\ request.pc = "do"
    /\ request' = [request EXCEPT !.pc = "returned", !.reqCtx = "cancelled",
                                  !.err = "request error"]
    /\ RequestUnchanged

\* httpClient.Do returns a response: the status line and the headers are
\* in, the body is not read yet
httpClientDo(status) ==
    /\ request.pc = "do"
    /\ request' = IF adaptor = "unifi"
                  THEN doRequestReturns([request EXCEPT !.status = status])
                  ELSE [request EXCEPT !.pc = "status", !.status = status]
    /\ RequestUnchanged

\* the caller looks at resp.StatusCode (Cloudflare's GET does not, and
\* goes on to the body)
ReadStatus ==
    /\ request.pc = "status"
    /\ request' = [request EXCEPT !.pc = IF ReadsBody(adaptor, request)
                                         THEN "body" ELSE "return"]
    /\ RequestUnchanged

\* json.NewDecoder(resp.Body).Decode or io.ReadAll(resp.Body)
ReadBody(outcome) ==
    /\ request.pc = "body"
    /\ outcome \in BodyReads(request)
    /\ request' = [request EXCEPT !.pc = "return", !.body = outcome]
    /\ RequestUnchanged

\* the function that read the response returns: the deferred Body.Close
\* and, in Cloudflare, OVH and Azure, the deferred cancel
Return ==
    /\ request.pc = "return"
    /\ request' = [request EXCEPT
                      !.pc = "returned", !.reqCtx = "cancelled",
                      !.err = IF request.body = "context canceled"
                                 /\ request.method = "GET"
                                 /\ ~ReadFails(adaptor, [status |-> request.status,
                                                          body |-> "ok"])
                              THEN "error decoding response"
                              ELSE IF request.method = "GET"
                                   THEN IF ReadFails(adaptor, [status |-> request.status,
                                                               body |-> "ok"])
                                        THEN "invalid response" ELSE "nil"
                                   ELSE IF WriteFails(adaptor, request.method,
                                                      [status |-> request.status,
                                                       body |-> "ok"])
                                        THEN "invalid response" ELSE "nil"]
    /\ RequestUnchanged

NextRequest ==
    \/ \E method \in MethodsOf(adaptor) : WithTimeout(method)
    \/ DoFails
    \/ \E status \in {200, 204, 404, 500} : httpClientDo(status)
    \/ ReadStatus
    \/ \E outcome \in {"read", "context canceled"} : ReadBody(outcome)
    \/ Return

SpecRequest == InitRequest /\ [][NextRequest]_vars

\* C38: in every adaptor the context of a request is cancelled only when
\* the function that reads the status and the body of the response has
\* returned; it is live while the response is being read
C38_CancelAfterRead ==
    request.reqCtx = "cancelled" => request.pc = "returned"

(***************************************************************************)
(* Part 11: checkAndUpdateDNS with an adaptor in place of the mock: the    *)
(* call of dc.provider.UpdateRecords runs the requests of the adaptor on   *)
(* the records of the provider                                             *)
(***************************************************************************)

InitConverge ==
    /\ cfg \in [Domains -> [endpoints : {<<IPList[1], IPList[2]>>},
                            attempts : {New(1), New(2)},
                            ttl : {Validate(t) : t \in TTLCfg}]]
    /\ dcs = NewHealthChecker(cfg)
    /\ pc = "waiting"
    /\ todo = {}
    /\ cur = NoCur
    /\ hist = [d \in Domains |-> NoHist]
    /\ probeLog = FALSE
    /\ adaptor \in {"cloudflare", "ovh"}
    /\ records = EmptyMap
    /\ rset = NoRecordSet
    /\ apc = "idle"
    /\ call = NoCall
    /\ pre = [records |-> records, rset |-> rset]
    /\ existingRecords = <<>>
    /\ pending = <<>>
    /\ plan = <<>>
    /\ log = <<>>
    /\ lastResp = NoResp
    /\ ret = "none"
    /\ NoGoroutines
    /\ NoProbes
    /\ boot = NoBoot
    /\ srv = NoServer
    /\ request = NoRequest

\* dc.provider.UpdateRecords(ctx, domain, dc.ttl, newHealthyIPs) is entered
ProviderCalled ==
    /\ pc = "calling"
    /\ apc = "idle"
    /\ UpdateRecords(cur.ttl, cur.newHealthyIPs)

\* UpdateRecords has returned: setError and continue on an error, setState
\* otherwise; the call and its requests are over
ProviderReturned ==
    /\ pc = "calling"
    /\ apc = "done"
    /\ LET d == cur.domain
       IN  /\ dcs' = [dcs EXCEPT ![d] =
                        IF ret = "error"
                        THEN setError(dcs[d], "Error updating DNS records")
                        ELSE setState(dcs[d], cur.newHealthyIPs, cur.failedIPs)]
           /\ hist' = [hist EXCEPT ![d] =
                         [outcome |-> IF ret = "error" THEN "error" ELSE "updated",
                          prev |-> cur.currentHealthyIPs,
                          prevFailed |-> dcs[d].failedIPs, results |-> cur.results,
                          new |-> cur.newHealthyIPs, calls |-> <<cur.newHealthyIPs>>,
                          consec |-> Consecutive(d, cur.results)]]
           /\ todo' = todo \ {d}
    /\ pc' = "pass"
    /\ cur' = NoCur
    /\ apc' = "idle"
    /\ call' = NoCall
    /\ existingRecords' = <<>>
    /\ pending' = <<>>
    /\ plan' = <<>>
    /\ log' = <<>>
    /\ lastResp' = NoResp
    /\ ret' = "none"
    /\ UNCHANGED <<cfg, probeLog, adaptor, records, rset, pre, cvars, pvars, boot,
                   srv, request>>

NextConverge ==
    \/ Tick
    \/ EndPass
    \/ \E d \in DOMAIN cfg : \E r \in CheckAll(d) : ReconcileNoCall(d, r)
    \/ \E d \in DOMAIN cfg : \E r \in CheckAll(d) : ReconcileCall(d, r)
    \/ ProviderCalled
    \/ \E resp \in Responses(adaptor) : getExistingRecords(resp)
    \/ \E resp \in Responses(adaptor) : getRecord(resp)
    \/ \E resp \in WriteResponses(adaptor) : deleteRecord(resp)
    \/ \E resp \in WriteResponses(adaptor) : createRecord(resp)
    \/ ReturnNil
    \/ ProviderReturned

\* the ticker fires every interval and every request is answered or times
\* out: the loop of Run does not stop
SpecConverge == InitConverge /\ [][NextConverge]_vars /\ WF_vars(NextConverge)

\* the results of the probes of the one domain
ProbeResults == [1..2 -> BOOLEAN]

\* the IPs of the endpoints whose probe succeeds under the results r
HealthySet(r) == {IPList[i] : i \in {j \in 1..2 : r[j]}}

\* the probes of the domain give r: the last reconciliation and the one in
\* progress ran on r
ProbesAre(r) ==
    /\ \A d \in Domains : hist[d].results = r
    /\ pc = "calling" => cur.results = r

\* no request of the provider has failed: the answer to the last request
\* is a 200 with a body that decodes and reports no failure
RequestsSucceed ==
    /\ ret # "error"
    /\ lastResp # NoResp => (lastResp.status = 200 /\ lastResp.body = "ok")

\* the contents of the A records of the domain at the provider
ProviderSet == {records[id].content : id \in DOMAIN records}

\* C35 (convergence): if from some tick on the probes of the domain give the
\* same results, with a non-empty set H of healthy IPs, and every request of
\* the provider succeeds, then eventually the A records of the domain at the
\* provider are H and stay H
C35_Convergence ==
    \A r \in ProbeResults :
        HealthySet(r) # {} =>
            (<>[](ProbesAre(r) /\ RequestsSucceed) => <>[](ProviderSet = HealthySet(r)))

====
